---- MODULE Spec2Model ----
(***************************************************************************)
(* Ingestion-to-answer pipeline of the document intelligence backend:      *)
(* chunker, FAISS vector store, ingestion, document deletion, retrieval    *)
(* and process restart, as asyncio coroutines over shared state.           *)
(*                                                                         *)
(* A text is a sequence of one-character strings.  Positions are 0-based   *)
(* as in the Python source; TLA+ sequences are 1-based, so text[i] of the  *)
(* source is t[i+1] here.                                                  *)
(***************************************************************************)
EXTENDS Integers, Sequences, FiniteSets, TLC

\* ------------------------------------------------------------------ bounds
MaxIngests == 2       \* ingest requests started in one behaviour
MaxDeletes == 1       \* delete requests started in one behaviour
MaxRetrieves == 1     \* retrieve requests started in one behaviour
MaxK == 3             \* largest k a retrieve request asks for
MaxIter == 8          \* iterations of the chunker's loop that are followed
MaxLen == 5           \* longest text of the chunker's enumerated inputs
MaxChunkSize == 3     \* largest chunk_size of the chunker's enumerated inputs
ForeignDimension == 768   \* width of the vectors of a snapshot another model wrote
MaxAgentRuns == 2     \* agent requests started in one behaviour
MaxLists == 1         \* list_documents requests made in one behaviour

\* ------------------------------------------------------------ Python helpers
Max(S) == CHOOSE x \in S : \A y \in S : y <= x

Min2(a, b) == IF a < b THEN a ELSE b

\* Python's adjustment of a slice bound i to a sequence of length n
\* (negative bounds count from the end, all bounds are clipped to 0..n).
Adj(i, n) == IF i < 0 THEN (IF i + n < 0 THEN 0 ELSE i + n)
             ELSE IF i > n THEN n ELSE i

\* text[s:e]
Slice(t, s, e) ==
    LET a == Adj(s, Len(t))
        b == Adj(e, Len(t))
    IN IF a >= b THEN <<>> ELSE SubSeq(t, a + 1, b)

\* text.rfind(sub, s, e): the highest 0-based position p with
\* s <= p, p + len(sub) <= e and text[p:p+len(sub)] == sub, else -1.
RFind(t, sub, s, e) ==
    LET a == Adj(s, Len(t))
        b == Adj(e, Len(t))
        hits == {p \in a..(b - Len(sub)) : SubSeq(t, p + 1, p + Len(sub)) = sub}
    IN IF hits = {} THEN -1 ELSE Max(hits)

Whitespace == {" ", "\n", "\t"}

\* text.strip()
Strip(t) ==
    LET keep == {i \in 1..Len(t) : t[i] \notin Whitespace}
    IN IF keep = {} THEN <<>>
       ELSE SubSeq(t, CHOOSE i \in keep : \A j \in keep : i <= j, Max(keep))

\* ------------------------------------------------------------------ chunker
\* The boundary markers in the order the loop tries them.
Boundaries == << <<".", " ">>, <<"!", " ">>, <<"?", " ">>, <<"\n", "\n">>, <<"\n">> >>

\* Mutant of WindowEnd: every window is cut at the raw cutoff.
WindowEndRaw(text, start, chunk_size) ==
    IF start + chunk_size < Len(text) THEN start + chunk_size ELSE Len(text)

\* The end of the window that starts at `start`: the text's end when the raw
\* window reaches it; else just after the last occurrence of the first marker
\* that occurs in the window; else just after the last space that lies after
\* `start`; else the raw cutoff start + chunk_size.
WindowEnd(text, start, chunk_size) ==
    LET end == start + chunk_size
    IN IF end < Len(text)
       THEN LET found == {i \in 1..Len(Boundaries) :
                             RFind(text, Boundaries[i], start, end) # -1}
            IN IF found # {}
               THEN LET boundary == Boundaries[CHOOSE i \in found : \A j \in found : i <= j]
                    IN RFind(text, boundary, start, end) + Len(boundary)
               ELSE LET space_pos == RFind(text, <<" ">>, start, end)
                    IN IF space_pos # -1 /\ space_pos > start
                       THEN space_pos + 1
                       ELSE end
       ELSE Len(text)

\* `start <= chunks[-1].start_char if chunks else 0` used as a condition:
\* Python reads it as `(start <= chunks[-1].start_char) if chunks else 0`.
NoProgress(start, chunks) ==
    IF chunks # <<>> THEN start <= chunks[Len(chunks)].start_char ELSE FALSE

\* Mutant of ChunkIter: a window that is blank after trimming is appended too.
ChunkIterKeepBlank(text, chunk_size, chunk_overlap, st) ==
    LET end == WindowEnd(text, st.start, chunk_size)
        chunks == Append(st.chunks, [text |-> Strip(Slice(text, st.start, end)),
                                     chunk_index |-> st.chunk_index,
                                     start_char |-> st.start,
                                     end_char |-> end])
        start == end - chunk_overlap
    IN [start |-> IF NoProgress(start, chunks) THEN end ELSE start,
        chunk_index |-> st.chunk_index + 1,
        chunks |-> chunks]

\* Mutant of ChunkIter: the chunk carries the window's text untrimmed.
ChunkIterUntrimmed(text, chunk_size, chunk_overlap, st) ==
    LET end == WindowEnd(text, st.start, chunk_size)
        piece == Strip(Slice(text, st.start, end))
        chunks == IF piece # <<>>
                  THEN Append(st.chunks, [text |-> Slice(text, st.start, end),
                                          chunk_index |-> st.chunk_index,
                                          start_char |-> st.start,
                                          end_char |-> end])
                  ELSE st.chunks
        chunk_index == IF piece # <<>> THEN st.chunk_index + 1 ELSE st.chunk_index
        start == end - chunk_overlap
    IN [start |-> IF NoProgress(start, chunks) THEN end ELSE start,
        chunk_index |-> chunk_index,
        chunks |-> chunks]

\* Mutant of ChunkIter: the next window starts 2 * chunk_overlap before the
\* end of this one.
ChunkIterDoubleOverlap(text, chunk_size, chunk_overlap, st) ==
    LET end == WindowEnd(text, st.start, chunk_size)
        piece == Strip(Slice(text, st.start, end))
        chunks == IF piece # <<>>
                  THEN Append(st.chunks, [text |-> piece,
                                          chunk_index |-> st.chunk_index,
                                          start_char |-> st.start,
                                          end_char |-> end])
                  ELSE st.chunks
        chunk_index == IF piece # <<>> THEN st.chunk_index + 1 ELSE st.chunk_index
        start == end - 2 * chunk_overlap
    IN [start |-> IF NoProgress(start, chunks) THEN end ELSE start,
        chunk_index |-> chunk_index,
        chunks |-> chunks]

\* One iteration of the while loop on the loop state st = [start, chunk_index,
\* chunks].
ChunkIter(text, chunk_size, chunk_overlap, st) ==
    LET end == WindowEnd(text, st.start, chunk_size)
        piece == Strip(Slice(text, st.start, end))
        chunks == IF piece # <<>>
                  THEN Append(st.chunks, [text |-> piece,
                                          chunk_index |-> st.chunk_index,
                                          start_char |-> st.start,
                                          end_char |-> end])
                  ELSE st.chunks
        chunk_index == IF piece # <<>> THEN st.chunk_index + 1 ELSE st.chunk_index
        start == end - chunk_overlap
    IN [start |-> IF NoProgress(start, chunks) THEN end ELSE start,
        chunk_index |-> chunk_index,
        chunks |-> chunks]

ChunkInit == [start |-> 0, chunk_index |-> 0, chunks |-> <<>>]

\* The while loop, followed for at most `fuel` iterations.
RECURSIVE ChunkLoop(_, _, _, _, _)
ChunkLoop(text, chunk_size, chunk_overlap, st, fuel) ==
    IF ~(st.start < Len(text)) THEN [halted |-> TRUE, chunks |-> st.chunks]
    ELSE IF fuel = 0 THEN [halted |-> FALSE, chunks |-> st.chunks]
    ELSE ChunkLoop(text, chunk_size, chunk_overlap,
                   ChunkIter(text, chunk_size, chunk_overlap, st), fuel - 1)

\* chunk_text: [halted, chunks]; halted is FALSE when the loop is still
\* running after MaxIter iterations.
chunk_text(text, chunk_size, chunk_overlap) ==
    IF text = <<>> \/ Strip(text) = <<>>
    THEN [halted |-> TRUE, chunks |-> <<>>]
    ELSE ChunkLoop(text, chunk_size, chunk_overlap, ChunkInit, MaxIter)

\* chunk_document copies every Chunk into a dictionary with the same fields.
chunk_document(content, chunk_size, chunk_overlap) ==
    LET r == chunk_text(content, chunk_size, chunk_overlap)
    IN [halted |-> r.halted,
        chunks |-> [i \in 1..Len(r.chunks) |->
                       [text |-> r.chunks[i].text,
                        chunk_index |-> r.chunks[i].chunk_index,
                        start_char |-> r.chunks[i].start_char,
                        end_char |-> r.chunks[i].end_char]]]

\* ------------------------------------------------------- embedding provider
\* The embedding model is a deterministic function of the text.  A vector is
\* modelled by one integer coordinate; its width is carried by the batch.
Code(c) == CASE c = "A" -> 1 [] c = "B" -> 2 [] c = "C" -> 3 [] OTHER -> 0

RECURSIVE Embed(_)
Embed(t) == IF t = <<>> THEN 0 ELSE Code(Head(t)) + Embed(Tail(t))

\* Width of the vectors of all-MiniLM-L6-v2.
EmbeddingDimension == 384

\* embedding_service.embed_texts: one vector per text, in the order given.
embed_texts(texts) ==
    [dim |-> EmbeddingDimension, vals |-> [i \in 1..Len(texts) |-> Embed(texts[i])]]

\* embedding_service.embed_single
embed_single(text) == [dim |-> EmbeddingDimension, val |-> Embed(text)]

\* ------------------------------------------------------------- vector store
DEFAULT_DIMENSION == 384

\* Squared L2 distance, in tenths.  One coordinate step is sqrt(0.3), so the
\* distances are 0, 0.3, 1.2, 2.7, ...
Distance(v, q) == 3 * (v - q) * (v - q)

\* vector_store.search: what IndexFlatL2.search may return for k neighbours of
\* q among the vectors vecs.  The first min(k, n) entries are the nearest
\* slots, nearest first (the order among equal distances is the index's
\* choice); the rest are marked absent with -1.
SearchOutcomes(vecs, q, k) ==
    LET n == Len(vecs)
        m == Min2(k, n)
        dist(s) == Distance(vecs[s + 1], q)
        tops == {f \in [1..m -> 0..(n - 1)] :
                    /\ \A i, j \in 1..m : i < j => f[i] # f[j] /\ dist(f[i]) <= dist(f[j])
                    /\ \A s \in 0..(n - 1) :
                          (\A i \in 1..m : f[i] # s) => \A i \in 1..m : dist(f[i]) <= dist(s)}
    IN {[indices |-> [i \in 1..k |-> IF i <= m THEN f[i] ELSE -1],
         distances |-> [i \in 1..k |-> IF i <= m THEN dist(f[i]) ELSE -1]] : f \in tops}

\* ------------------------------------------------------------------- inputs
Owners == {"alice", "bob"}

Blank == <<" ", " ">>
TwoSentences == <<"A", ".", " ", "B", ".">>
ThreeSentences == <<"A", ".", " ", "B", ".", " ", "C", ".">>

\* (content, user_email) pairs handed to ingest_document.
Uploads == {<<Blank, "alice">>, <<TwoSentences, "alice">>, <<ThreeSentences, "bob">>}

\* (chunk_size, chunk_overlap) pairs handed to ingest_document.
ChunkParams == {<<4, 0>>}

\* Query texts handed to search_similar_chunks.
Queries == {<<"C">>}

IngTasks == {"i1", "i2"}

\* ------------------------------------------------------------------- state
VARIABLES
    index,       \* vector_store.index: the vectors, slot s at position s + 1
    dimension,   \* vector_store.dimension
    snapshot,    \* the file faiss_index/index.faiss
    documents,   \* MongoDB collection documents
    chunks,      \* MongoDB collection chunks
    issued,      \* ObjectIds handed out so far: issued[id] is the owner of document id
    running,     \* the coroutine the event loop is executing, or "none"
    ing,         \* ingest_document coroutines
    del,         \* delete_document coroutine
    ret,         \* search_similar_chunks coroutine
    ingests,     \* ingest requests so far
    deletes,     \* delete requests so far
    retrieves,   \* retrieve requests so far
    addLog,      \* history: [start, at, vals] of every add_vectors, in order
    deleted,     \* history: ids of the documents whose deletion has completed
    assigned,    \* history: every <<slot, document id>> a ChunkMetadata record carried
    chk,         \* a call of chunk_text: its arguments and locals
    ag,          \* run_agent coroutines: the graph's channels and position
    agent_runs,  \* agent requests so far
    qry,         \* query_documents coroutine
    lst          \* list_documents: the calls made and the last response

vars == <<index, dimension, snapshot, documents, chunks, issued, running,
          ing, del, ret, ingests, deletes, retrieves, addLog, deleted, assigned,
          chk, ag, agent_runs, qry, lst>>

store == <<index, dimension, snapshot>>
mongo == <<documents, chunks, issued>>
counts == <<ingests, deletes, retrieves>>
history == <<addLog, deleted, assigned>>
others == <<chk, ag, agent_runs, qry, lst>>

IngIdle == [pc |-> "idle", content |-> <<>>, user_email |-> "none",
            chunk_size |-> 0, chunk_overlap |-> 0, chunks |-> <<>>,
            start_index |-> -1, embeddings |-> [dim |-> 0, vals |-> <<>>],
            document_id |-> 0, error |-> "none", steps |-> <<>>]

DelIdle == [pc |-> "idle", document_id |-> 0, user_email |-> "none",
            chunks_deleted |-> 0, error |-> "none"]

RetIdle == [pc |-> "idle", query |-> <<>>, k |-> 0, user_email |-> "none",
            valid_indices |-> <<>>, valid_distances |-> <<>>,
            raw |-> [indices |-> <<>>, distances |-> <<>>],
            results |-> <<>>, deleted_before |-> {}]

ListIdle == [calls |-> 0, user_email |-> "none", documents |-> <<>>, total |-> 0]

NoSnapshot == [state |-> "missing", d |-> 0, vecs |-> <<>>]

\* chunk_text before it is called: no arguments, the locals unassigned.
\* odd tells whether the loop has run an odd number of iterations.
ChkIdle == [pc |-> "idle", text |-> <<>>, chunk_size |-> 0, chunk_overlap |-> 0,
            start |-> 0, end |-> 0, chunk_index |-> 0, chunks |-> <<>>,
            odd |-> FALSE]

AgTasks == {"a1", "a2"}

\* run_agent before it is called.  The fields question .. user_email are the
\* channels of AgentState; retrieved, calls and stages record what
\* search_similar_chunks returned, the arguments of every llm_service.generate
\* call and the nodes that have run.
AgIdle == [pc |-> "idle", question |-> <<>>, retrieved_chunks |-> <<>>,
           reasoning |-> "", answer |-> "", messages |-> <<>>, k |-> 0,
           user_email |-> "none",
           valid_indices |-> <<>>, valid_distances |-> <<>>,
           retrieved |-> <<>>, calls |-> <<>>, stages |-> <<>>,
           result |-> [returned |-> FALSE, question |-> <<>>, answer |-> "",
                       reasoning |-> "", sources |-> <<>>, messages |-> <<>>]]

\* query_documents before it is called.  retrieved and calls record what
\* search_similar_chunks returned and the arguments of the generate call;
\* response is what the route sends back.
QryIdle == [pc |-> "idle", question |-> <<>>, k |-> 0, user_email |-> "none",
            valid_indices |-> <<>>, valid_distances |-> <<>>,
            retrieved |-> <<>>, calls |-> <<>>,
            response |-> [status |-> 0, answer |-> "", sources |-> <<>>]]

Init ==
    /\ index = <<>>
    /\ dimension = DEFAULT_DIMENSION
    /\ snapshot = NoSnapshot
    /\ documents = {}
    /\ chunks = {}
    /\ issued = <<>>
    /\ running = "none"
    /\ ing = [t \in IngTasks |-> IngIdle]
    /\ del = DelIdle
    /\ ret = RetIdle
    /\ ingests = 0
    /\ deletes = 0
    /\ retrieves = 0
    /\ addLog = <<>>
    /\ deleted = {}
    /\ assigned = {}
    /\ chk = ChkIdle
    /\ ag = [a \in AgTasks |-> AgIdle]
    /\ agent_runs = 0
    /\ qry = QryIdle
    /\ lst = ListIdle

\* ---------------------------------------------------------------- ingestion
\* Mutant of IngestSteps: the Document record is written before the index is
\* persisted.
IngestStepsDocBeforeSave ==
    <<"chunk", "reserve", "embed", "add", "insert_doc", "save", "insert_chunks">>

\* The steps of ingest_document in program order.
IngestSteps == <<"chunk", "reserve", "embed", "add", "save", "insert_doc", "insert_chunks">>

\* Mutant of Awaited: the embedding call is awaited too.
AwaitedWithEmbed == {"embed", "insert_doc", "insert_chunks"}

\* The steps that are awaited calls to the metadata store: the coroutine is
\* suspended there and the event loop runs other requests.
Awaited == {"insert_doc", "insert_chunks"}

NextPc(pc) ==
    LET i == CHOOSE j \in 1..Len(IngestSteps) : IngestSteps[j] = pc
    IN IF i = Len(IngestSteps) THEN "done" ELSE IngestSteps[i + 1]

\* A coroutine executes a synchronous step when it holds the event loop, or
\* takes it when no coroutine is running.
MayRun(t) == running \in {"none", t}

\* After a step the coroutine keeps the event loop unless what comes next is
\* an awaited call or the coroutine has ended.
Holder(t, pc) == IF pc \in Awaited \cup {"done", "failed"} THEN "none" ELSE t

Advance(t, upd) ==
    LET next == NextPc(ing[t].pc)
    IN /\ ing' = [ing EXCEPT ![t] = [upd EXCEPT !.pc = next,
                                                !.steps = Append(ing[t].steps, ing[t].pc)]]
       /\ running' = IF ing[t].pc \in Awaited THEN running ELSE Holder(t, next)

Raise(t, err) ==
    /\ ing' = [ing EXCEPT ![t].pc = "failed", ![t].error = err]
    /\ running' = IF ing[t].pc \in Awaited THEN running ELSE "none"

\* A coroutine slot is free when its last request has ended.
Free(t) == ing[t].pc \in {"idle", "done", "failed"}

\* Mutant of NoChunks: the check is missing.
NoChunksUnchecked(result) == FALSE

\* `if not chunks`
NoChunks(result) == result = <<>>

\* A new request runs in the first free slot.
Before(a, b) == a = "i1" /\ b = "i2"

\* A request calls ingest_document(filename, content, user_email, chunk_size,
\* chunk_overlap), which starts with step 1: chunk the document; no chunks
\* raises ValueError.  The filename is copied into the records and read by
\* nothing; it is left out.
IngestChunk(t, content, user, cs, co) ==
    /\ Free(t)
    /\ \A other \in IngTasks : Free(other) => ~Before(other, t)
    /\ running = "none"
    /\ ingests < MaxIngests
    /\ LET r == chunk_document(content, cs, co)
           call == [IngIdle EXCEPT !.pc = "chunk", !.content = content,
                                   !.user_email = user, !.chunk_size = cs,
                                   !.chunk_overlap = co]
       IN /\ r.halted
          /\ IF NoChunks(r.chunks)
             THEN /\ ing' = [ing EXCEPT ![t] = [call EXCEPT !.pc = "failed",
                                                    !.error = "Document produced no chunks"]]
                  /\ running' = "none"
             ELSE /\ ing' = [ing EXCEPT ![t] = [call EXCEPT !.pc = NextPc("chunk"),
                                                    !.chunks = r.chunks,
                                                    !.steps = <<"chunk">>]]
                  /\ running' = Holder(t, NextPc("chunk"))
    /\ ingests' = ingests + 1
    /\ UNCHANGED <<deletes, retrieves>>
    /\ UNCHANGED <<store, mongo, del, ret, history>>
    /\ UNCHANGED others

\* Step 2: start_index = vector_store.total_vectors
IngestReserve(t) ==
    /\ ing[t].pc = "reserve"
    /\ MayRun(t)
    /\ Advance(t, [ing[t] EXCEPT !.start_index = Len(index)])
    /\ UNCHANGED <<store, mongo, del, ret, counts, addLog, deleted, assigned>>
    /\ UNCHANGED others

\* Step 3: embed all chunk texts in one batch.
IngestEmbed(t) ==
    /\ ing[t].pc = "embed"
    /\ MayRun(t)
    /\ Advance(t, [ing[t] EXCEPT !.embeddings =
                      embed_texts([i \in 1..Len(ing[t].chunks) |-> ing[t].chunks[i].text])])
    /\ UNCHANGED <<store, mongo, del, ret, counts, history>>
    /\ UNCHANGED others

\* Step 3 when the embedding model raises.
IngestEmbedFail(t) ==
    /\ ing[t].pc = "embed"
    /\ MayRun(t)
    /\ Raise(t, "embedding failed")
    /\ UNCHANGED <<store, mongo, del, ret, counts, history>>
    /\ UNCHANGED others

\* Step 4: vector_store.add_vectors(embeddings)
\* Mutant of IngestAdd: the batch is added whatever its width.
IngestAddUnchecked(t) ==
    /\ ing[t].pc = "add"
    /\ MayRun(t)
    /\ index' = index \o ing[t].embeddings.vals
    /\ addLog' = Append(addLog, [start |-> ing[t].start_index,
                                 at |-> Len(index),
                                 vals |-> ing[t].embeddings.vals])
    /\ Advance(t, ing[t])
    /\ UNCHANGED <<dimension, snapshot, mongo, del, ret, counts, deleted, assigned>>
    /\ UNCHANGED others

IngestAdd(t) ==
    /\ ing[t].pc = "add"
    /\ MayRun(t)
    /\ IF ing[t].embeddings.dim # dimension
       THEN /\ Raise(t, "dimension mismatch")
            /\ UNCHANGED <<index, addLog>>
       ELSE /\ index' = index \o ing[t].embeddings.vals
            /\ addLog' = Append(addLog, [start |-> ing[t].start_index,
                                         at |-> Len(index),
                                         vals |-> ing[t].embeddings.vals])
            /\ Advance(t, ing[t])
    /\ UNCHANGED <<dimension, snapshot, mongo, del, ret, counts, deleted, assigned>>
    /\ UNCHANGED others

\* Step 5: vector_store.save() writes the whole index to the snapshot file.
IngestSave(t) ==
    /\ ing[t].pc = "save"
    /\ MayRun(t)
    /\ snapshot' = [state |-> "ok", d |-> dimension, vecs |-> index]
    /\ Advance(t, ing[t])
    /\ UNCHANGED <<index, dimension, mongo, del, ret, counts, history>>
    /\ UNCHANGED others

\* Step 5 when writing the file fails: write_index has not touched the file,
\* or has truncated it and written only a part.
IngestSaveFail(t, damaged) ==
    /\ ing[t].pc = "save"
    /\ MayRun(t)
    /\ snapshot' = IF damaged THEN [state |-> "corrupt", d |-> 0, vecs |-> <<>>] ELSE snapshot
    /\ Raise(t, "save failed")
    /\ UNCHANGED <<index, dimension, mongo, del, ret, counts, history>>
    /\ UNCHANGED others

\* Mutant of document_record: faiss_end_index names the last slot, not the one
\* after it.
document_record_inclusive_end(t, id) ==
    [_id |-> id,
     user_email |-> ing[t].user_email,
     content_length |-> Len(ing[t].content),
     chunk_count |-> Len(ing[t].chunks),
     faiss_start_index |-> ing[t].start_index,
     faiss_end_index |-> ing[t].start_index + Len(ing[t].chunks) - 1]

document_record(t, id) ==
    [_id |-> id,
     user_email |-> ing[t].user_email,
     content_length |-> Len(ing[t].content),
     chunk_count |-> Len(ing[t].chunks),
     faiss_start_index |-> ing[t].start_index,
     faiss_end_index |-> ing[t].start_index + Len(ing[t].chunks)]

\* Step 6: await documents.insert_one(document_record)
IngestInsertDoc(t) ==
    /\ ing[t].pc = "insert_doc"
    /\ LET id == Len(issued) + 1
       IN /\ documents' = documents \cup {document_record(t, id)}
          /\ issued' = Append(issued, ing[t].user_email)
          /\ Advance(t, [ing[t] EXCEPT !.document_id = id])
    /\ UNCHANGED <<store, chunks, del, ret, counts, history>>
    /\ UNCHANGED others

\* Mutant of faiss_index: the slots are counted from start_index + 1.
faiss_index_from_one(start_index, i) == start_index + i + 1

\* The slot recorded for the i-th chunk (i counted from 0).
faiss_index(start_index, i) == start_index + i

chunk_records(t) ==
    [j \in 1..Len(ing[t].chunks) |->
        [document_id |-> ing[t].document_id,
         user_email |-> ing[t].user_email,
         chunk_index |-> ing[t].chunks[j].chunk_index,
         faiss_index |-> faiss_index(ing[t].start_index, j - 1),
         text |-> ing[t].chunks[j].text,
         start_char |-> ing[t].chunks[j].start_char,
         end_char |-> ing[t].chunks[j].end_char]]

\* Step 7: await chunks.insert_many(chunk_records)
IngestInsertChunks(t) ==
    /\ ing[t].pc = "insert_chunks"
    /\ chunks' = chunks \cup {chunk_records(t)[j] : j \in 1..Len(ing[t].chunks)}
    /\ assigned' = assigned \cup {<<chunk_records(t)[j].faiss_index, ing[t].document_id>> :
                                      j \in 1..Len(ing[t].chunks)}
    /\ Advance(t, ing[t])
    /\ UNCHANGED <<store, documents, issued, del, ret, counts, addLog, deleted>>
    /\ UNCHANGED others

\* Step 7 when the ordered bulk insert fails after `written` records.
IngestInsertChunksFail(t, written) ==
    /\ ing[t].pc = "insert_chunks"
    /\ written \in 0..(Len(ing[t].chunks) - 1)
    /\ chunks' = chunks \cup {chunk_records(t)[j] : j \in 1..written}
    /\ assigned' = assigned \cup {<<chunk_records(t)[j].faiss_index, ing[t].document_id>> :
                                      j \in 1..written}
    /\ Raise(t, "insert_many failed")
    /\ UNCHANGED <<store, documents, issued, del, ret, counts, addLog, deleted>>
    /\ UNCHANGED others

\* The request is abandoned, or the metadata store fails, while the coroutine
\* is suspended in insert_one.
IngestAbandon(t) ==
    /\ ing[t].pc = "insert_doc"
    /\ Raise(t, "abandoned")
    /\ UNCHANGED <<store, mongo, del, ret, counts, history>>
    /\ UNCHANGED others

\* ----------------------------------------------------------------- deletion
\* Document ids a delete request may carry; 0 stands for a string that is no
\* ObjectId.
DeleteIds == 0..MaxIngests

\* DELETE /documents/{document_id}
DeleteStart(id, user) ==
    /\ del.pc \in {"idle", "done", "failed"}
    /\ deletes < MaxDeletes
    /\ del' = IF id = 0
              THEN [DelIdle EXCEPT !.pc = "failed", !.document_id = id, !.user_email = user,
                                   !.error = "Invalid document ID format"]
              ELSE [DelIdle EXCEPT !.pc = "find", !.document_id = id, !.user_email = user]
    /\ deletes' = deletes + 1
    /\ UNCHANGED <<store, mongo, running, ing, ret, ingests, retrieves, history>>
    /\ UNCHANGED others

\* await documents.find_one({_id, user_email}); 404 when there is none.
DeleteFind ==
    /\ del.pc = "find"
    /\ del' = IF \E d \in documents : d._id = del.document_id /\ d.user_email = del.user_email
              THEN [del EXCEPT !.pc = "delete_chunks"]
              ELSE [del EXCEPT !.pc = "failed", !.error = "Document not found"]
    /\ UNCHANGED <<store, mongo, running, ing, ret, counts, history>>
    /\ UNCHANGED others

\* Mutant of DeleteChunks: the vectors of the deleted chunks are taken out
\* of the index as well.
DeleteChunksAndVectors ==
    /\ del.pc = "delete_chunks"
    /\ LET gone == {c \in chunks : c.document_id = del.document_id}
           slots == {c.faiss_index : c \in gone}
           kept == SelectSeq([i \in 1..Len(index) |-> i], LAMBDA i : (i - 1) \notin slots)
       IN /\ chunks' = chunks \ gone
          /\ index' = [j \in 1..Len(kept) |-> index[kept[j]]]
          /\ del' = [del EXCEPT !.pc = "delete_doc", !.chunks_deleted = Cardinality(gone)]
    /\ UNCHANGED <<dimension, snapshot, documents, issued, running, ing, ret, counts, history>>
    /\ UNCHANGED others

\* await chunks.delete_many({document_id})
DeleteChunks ==
    /\ del.pc = "delete_chunks"
    /\ LET gone == {c \in chunks : c.document_id = del.document_id}
       IN /\ chunks' = chunks \ gone
          /\ del' = [del EXCEPT !.pc = "delete_doc", !.chunks_deleted = Cardinality(gone)]
    /\ UNCHANGED <<store, documents, issued, running, ing, ret, counts, history>>
    /\ UNCHANGED others

\* await documents.delete_one({_id}), then the response.
DeleteDoc ==
    /\ del.pc = "delete_doc"
    /\ documents' = {d \in documents : d._id # del.document_id}
    /\ del' = [del EXCEPT !.pc = "done"]
    /\ deleted' = deleted \cup {del.document_id}
    /\ UNCHANGED <<store, chunks, issued, running, ing, ret, counts, addLog, assigned>>
    /\ UNCHANGED others

\* The request is abandoned, or the metadata store fails, at one of the
\* awaited calls.
DeleteAbandon ==
    /\ del.pc \in {"find", "delete_chunks", "delete_doc"}
    /\ del' = [del EXCEPT !.pc = "failed", !.error = "abandoned"]
    /\ UNCHANGED <<store, mongo, running, ing, ret, counts, history>>
    /\ UNCHANGED others

\* ---------------------------------------------------------------- retrieval
\* "none" stands for user_email=None.
RetrieveUsers == Owners \cup {"none"}

\* The positions of seq, in order, whose entry is in S.
Positions(seq, S) ==
    SelectSeq([i \in 1..Len(seq) |-> i], LAMBDA i : seq[i] \in S)

\* Steps 1-3 of search_similar_chunks: embed the query, search the index,
\* drop the entries marked -1; nothing left returns [].
RetrieveSearch(query, k, user) ==
    /\ ret.pc \in {"idle", "done"}
    /\ running = "none"
    /\ retrieves < MaxRetrieves
    /\ dimension = embed_single(query).dim
    /\ \E out \in SearchOutcomes(index, embed_single(query).val, k) :
          LET keep == Positions(out.indices, Nat)
              valid_indices == [j \in 1..Len(keep) |-> out.indices[keep[j]]]
              valid_distances == [j \in 1..Len(keep) |-> out.distances[keep[j]]]
          IN ret' = [RetIdle EXCEPT !.pc = IF valid_indices = <<>> THEN "done" ELSE "resolve",
                                    !.query = query, !.k = k, !.user_email = user,
                                    !.raw = out,
                                    !.valid_indices = valid_indices,
                                    !.valid_distances = valid_distances,
                                    !.deleted_before = deleted]
    /\ retrieves' = retrieves + 1
    /\ UNCHANGED <<store, mongo, running, ing, del, ingests, deletes, history>>
    /\ UNCHANGED others

\* Mutant of MatchingChunks: the owner is not part of the filter.
MatchingChunksAnyUser(faiss_indices, user) ==
    {c \in chunks : \E i \in 1..Len(faiss_indices) : faiss_indices[i] = c.faiss_index}

\* get_chunks_by_faiss_indices: the records the find matches.
MatchingChunks(faiss_indices, user) ==
    {c \in chunks :
        /\ \E i \in 1..Len(faiss_indices) : faiss_indices[i] = c.faiss_index
        /\ user # "none" => c.user_email = user}

\* chunk_map = {chunk["faiss_index"]: chunk for chunk in chunks}: the cursor
\* yields the records in an order of its own, and of two records with the same
\* faiss_index the one yielded last stays.
ChunkMaps(found) ==
    LET keys == {c.faiss_index : c \in found}
    IN {m \in [keys -> found] : \A s \in keys : m[s].faiss_index = s}

result_record(chunk, distance) ==
    [text |-> chunk.text,
     document_id |-> chunk.document_id,
     chunk_index |-> chunk.chunk_index,
     faiss_index |-> chunk.faiss_index,
     start_char |-> chunk.start_char,
     end_char |-> chunk.end_char,
     distance |-> distance]

\* Mutant of BuildResults: the results follow the slots in ascending order,
\* as a cursor sorted by faiss_index would yield the records.
BuildResultsInSlotOrder(valid_indices, valid_distances, chunk_map) ==
    IF DOMAIN chunk_map = {} THEN <<>>
    ELSE LET slots == [i \in 1..(Max(DOMAIN chunk_map) + 1) |-> i - 1]
             hit == Positions(slots, DOMAIN chunk_map)
             at(idx) == CHOOSE i \in 1..Len(valid_indices) : valid_indices[i] = idx
         IN [j \in 1..Len(hit) |->
                result_record(chunk_map[slots[hit[j]]], valid_distances[at(slots[hit[j]])])]

\* Mutant of BuildResults: the loop ends at the first slot that has no record.
BuildResultsUntilMiss(valid_indices, valid_distances, chunk_map) ==
    LET miss == {i \in 1..Len(valid_indices) : valid_indices[i] \notin DOMAIN chunk_map}
        n == IF miss = {} THEN Len(valid_indices)
             ELSE (CHOOSE i \in miss : \A j \in miss : i <= j) - 1
    IN [j \in 1..n |-> result_record(chunk_map[valid_indices[j]], valid_distances[j])]

\* Step 6: the results in the order of valid_indices.
BuildResults(valid_indices, valid_distances, chunk_map) ==
    LET hit == Positions(valid_indices, DOMAIN chunk_map)
    IN [j \in 1..Len(hit) |->
           result_record(chunk_map[valid_indices[hit[j]]], valid_distances[hit[j]])]

\* Steps 4-6: await the metadata lookup, then build and return the results.
RetrieveResolve ==
    /\ ret.pc = "resolve"
    /\ \E chunk_map \in ChunkMaps(MatchingChunks(ret.valid_indices, ret.user_email)) :
          ret' = [ret EXCEPT !.pc = "done",
                             !.results = BuildResults(ret.valid_indices,
                                                      ret.valid_distances, chunk_map)]
    /\ UNCHANGED <<store, mongo, running, ing, del, counts, history>>
    /\ UNCHANGED others

\* ------------------------------------------------------------------ restart
\* The process ends (every coroutine with it) and starts again, possibly
\* where the snapshot file is no longer there: a new VectorStore, then lifespan
\* loads the snapshot if the file exists and can be read, and otherwise keeps
\* the empty index.
\* Mutant of LoadedIndex: startup never reads the snapshot.
LoadedIndexEmpty(file) == <<>>

LoadedIndex(file) == IF file.state = "ok" THEN file.vecs ELSE <<>>

LoadedDimension(file) == IF file.state = "ok" THEN file.d ELSE DEFAULT_DIMENSION

Restart(lost) ==
    /\ snapshot' = IF lost THEN NoSnapshot ELSE snapshot
    /\ index' = LoadedIndex(snapshot')
    /\ dimension' = LoadedDimension(snapshot')
    /\ running' = "none"
    /\ ing' = [t \in IngTasks |-> IngIdle]
    /\ del' = DelIdle
    /\ ret' = RetIdle
    /\ ag' = [a \in AgTasks |-> AgIdle]
    /\ qry' = QryIdle
    /\ UNCHANGED <<mongo, counts, history, chk, agent_runs, lst>>

\* Snapshot files written by a deployment whose embedding model has
\* another width: an empty index and one holding a vector.
ForeignSnapshots == {[state |-> "ok", d |-> ForeignDimension, vecs |-> <<>>],
                     [state |-> "ok", d |-> ForeignDimension, vecs |-> <<5>>]}

\* The process starts where index.faiss is `file`.
RestartOn(file) ==
    /\ snapshot' = file
    /\ index' = LoadedIndex(file)
    /\ dimension' = LoadedDimension(file)
    /\ running' = "none"
    /\ ing' = [t \in IngTasks |-> IngIdle]
    /\ del' = DelIdle
    /\ ret' = RetIdle
    /\ ag' = [a \in AgTasks |-> AgIdle]
    /\ qry' = QryIdle
    /\ UNCHANGED <<mongo, counts, history, chk, agent_runs, lst>>

\* ---------------------------------------------------------- chunk_text runs
\* The characters of the enumerated texts: a letter, a space, a full stop and
\* a newline.
Alphabet == {"a", " ", ".", "\n"}

Texts == UNION {[1..n -> Alphabet] : n \in 0..MaxLen}

\* chunk_size and chunk_overlap with 0 <= chunk_overlap < chunk_size.
SizeParams == {p \in (1..MaxChunkSize) \X (0..(MaxChunkSize - 1)) : p[2] < p[1]}

\* 1200 characters without a boundary marker.
Plain1200 == [i \in 1..1200 |-> "a"]

\* 1200 characters of ten-character sentences "Abcd efg. ".
Prose1200 ==
    [i \in 1..1200 |->
        CASE i % 10 = 1 -> "A"
          [] i % 10 = 5 -> " "
          [] i % 10 = 9 -> "."
          [] i % 10 = 0 -> " "
          [] OTHER -> "a"]

Docs1200 == {Plain1200, Prose1200}

\* The calls of chunk_text that are followed: <<text, chunk_size, chunk_overlap>>.
\* "a\n\na. aa": a paragraph break, then a sentence end, in one window of 7.
ParagraphThenSentence == <<"a", "\n", "\n", "a", ".", " ", "a", "a">>

ChunkInputs ==
    {<<t, p[1], p[2]>> : t \in Texts, p \in SizeParams}
        \cup {<<ThreeSentences, 4, 0>>}
        \cup {<<ParagraphThenSentence, 7, 0>>}
        \cup {<<d, 500, 50>> : d \in Docs1200}

\* chunk_text(text, chunk_size, chunk_overlap) is called: a text that is empty
\* or blank returns [] at once, any other enters the loop.
ChunkCall(text, chunk_size, chunk_overlap) ==
    /\ chk.pc = "idle"
    /\ chk' = IF text = <<>> \/ Strip(text) = <<>>
              THEN [ChkIdle EXCEPT !.pc = "returned", !.text = text,
                                   !.chunk_size = chunk_size,
                                   !.chunk_overlap = chunk_overlap]
              ELSE [ChkIdle EXCEPT !.pc = "loop", !.text = text,
                                   !.chunk_size = chunk_size,
                                   !.chunk_overlap = chunk_overlap,
                                   !.start = ChunkInit.start,
                                   !.chunk_index = ChunkInit.chunk_index,
                                   !.chunks = ChunkInit.chunks]
    /\ UNCHANGED <<store, mongo, running, ing, del, ret, counts, history, ag, agent_runs, qry, lst>>

\* One iteration of `while start < len(text)`.
ChunkStep ==
    /\ chk.pc = "loop"
    /\ chk.start < Len(chk.text)
    /\ LET st == ChunkIter(chk.text, chk.chunk_size, chk.chunk_overlap,
                           [start |-> chk.start, chunk_index |-> chk.chunk_index,
                            chunks |-> chk.chunks])
       IN chk' = [chk EXCEPT !.start = st.start,
                             !.end = WindowEnd(chk.text, chk.start, chk.chunk_size),
                             !.chunk_index = st.chunk_index,
                             !.chunks = st.chunks,
                             !.odd = ~chk.odd]
    /\ UNCHANGED <<store, mongo, running, ing, del, ret, counts, history, ag, agent_runs, qry, lst>>

\* The loop condition fails: return chunks.
ChunkReturn ==
    /\ chk.pc = "loop"
    /\ ~(chk.start < Len(chk.text))
    /\ chk' = [chk EXCEPT !.pc = "returned"]
    /\ UNCHANGED <<store, mongo, running, ing, del, ret, counts, history, ag, agent_runs, qry, lst>>

\* -------------------------------------------------------------- agent runs
\* RELEVANCE_THRESHOLD = 1.2, in the tenths that Distance counts in.
RELEVANCE_THRESHOLD == 12

\* The questions asked: "C" is at distance 0, 0.3 and 1.2 of the chunks "C.",
\* "B." and "A."; "CC" is at 2.7 or more of all of them.
AgentQuestions == {<<"C">>, <<"C", "C">>}

\* llm_service.generate returns a text or raises.
LLMOutcomes == {"ok", "fail"}

NoDocumentsReasoning == "No relevant documents found to answer the question."
FallbackReasoning == "Retrieved context appears relevant based on semantic similarity."
GeneratedReasoning == "generated reasoning"
NoInformationAnswer ==
    "I couldn't find any relevant information in the uploaded documents to answer your question."
GeneratedAnswer == "generated answer"
ErrorAnswer == "Error generating answer"

\* HumanMessage / AIMessage: the role, the content and, for the retrieve
\* notice, the two counts its content quotes.
Message(role, content, kept, total) ==
    [role |-> role, content |-> content, kept |-> kept, total |-> total]

\* Mutant of relevant_chunks: a chunk at exactly the threshold is kept.
relevant_chunks_inclusive(retrieved) ==
    SelectSeq(retrieved, LAMBDA c : c.distance <= RELEVANCE_THRESHOLD)

\* relevant_chunks = [c for c in chunks if c.get("distance", 999) < RELEVANCE_THRESHOLD]
relevant_chunks(retrieved) ==
    SelectSeq(retrieved, LAMBDA c : c.distance < RELEVANCE_THRESHOLD)

\* retrieve_node after search_similar_chunks has returned `found`: the state
\* the node returns.
retrieve_node(state, found) ==
    LET relevant == relevant_chunks(found)
    IN [state EXCEPT
           !.retrieved_chunks = relevant,
           !.messages = Append(state.messages,
               IF relevant # <<>>
               THEN Message("human", "Retrieved relevant chunks", Len(relevant), Len(found))
               ELSE Message("human", "No relevant chunks found", 0, Len(found))),
           !.retrieved = found]

\* The arguments of one llm_service.generate call: the node that calls, the
\* chunks whose text goes into the prompt or the context, and the outcome.
Call(stage, passed, outcome) == [stage |-> stage, passed |-> passed, outcome |-> outcome]

\* Mutant of reason_node: the provider is asked also when there is no chunk.
reason_node_always_asks(state, outcome) ==
    LET reasoning == IF outcome = "ok" THEN GeneratedReasoning ELSE FallbackReasoning
    IN [state EXCEPT
           !.reasoning = reasoning,
           !.messages = Append(state.messages, Message("ai", "Reasoning: " \o reasoning, 0, 0)),
           !.calls = Append(state.calls,
                            Call("reason", SubSeq(state.retrieved_chunks, 1,
                                     Min2(3, Len(state.retrieved_chunks))), outcome))]

\* Mutant of reason_node: a failed generate leaves reasoning and the trace as
\* they were.
reason_node_no_fallback(state, outcome) ==
    IF state.retrieved_chunks = <<>>
    THEN [state EXCEPT
             !.reasoning = NoDocumentsReasoning,
             !.messages = Append(state.messages, Message("ai", NoDocumentsReasoning, 0, 0))]
    ELSE LET passed == SubSeq(state.retrieved_chunks, 1, Min2(3, Len(state.retrieved_chunks)))
         IN IF outcome = "ok"
            THEN [state EXCEPT
                     !.reasoning = GeneratedReasoning,
                     !.messages = Append(state.messages, Message("ai", "Reasoning: " \o GeneratedReasoning, 0, 0)),
                     !.calls = Append(state.calls, Call("reason", passed, outcome))]
            ELSE [state EXCEPT
                     !.calls = Append(state.calls, Call("reason", passed, outcome))]

\* reason_node: the state the node returns when generate ends with `outcome`.
reason_node(state, outcome) ==
    IF state.retrieved_chunks = <<>>
    THEN [state EXCEPT
             !.reasoning = NoDocumentsReasoning,
             !.messages = Append(state.messages, Message("ai", NoDocumentsReasoning, 0, 0))]
    ELSE LET reasoning == IF outcome = "ok" THEN GeneratedReasoning ELSE FallbackReasoning
         IN [state EXCEPT
                !.reasoning = reasoning,
                !.messages = Append(state.messages, Message("ai", "Reasoning: " \o reasoning, 0, 0)),
                !.calls = Append(state.calls,
                                 Call("reason", SubSeq(state.retrieved_chunks, 1,
                                          Min2(3, Len(state.retrieved_chunks))), outcome))]

\* Mutant of answer_node: a failed generate also clears the reasoning.
answer_node_failure_clears_reasoning(state, outcome) ==
    IF state.retrieved_chunks = <<>>
    THEN [state EXCEPT
             !.answer = NoInformationAnswer,
             !.messages = Append(state.messages, Message("ai", NoInformationAnswer, 0, 0))]
    ELSE LET answer == IF outcome = "ok" THEN GeneratedAnswer ELSE ErrorAnswer
         IN [state EXCEPT
                !.answer = answer,
                !.reasoning = IF outcome = "ok" THEN state.reasoning ELSE "",
                !.messages = Append(state.messages, Message("ai", answer, 0, 0)),
                !.calls = Append(state.calls,
                                 Call("generate", state.retrieved_chunks, outcome))]

\* answer_node: the state the node returns when generate ends with `outcome`.
answer_node(state, outcome) ==
    IF state.retrieved_chunks = <<>>
    THEN [state EXCEPT
             !.answer = NoInformationAnswer,
             !.messages = Append(state.messages, Message("ai", NoInformationAnswer, 0, 0))]
    ELSE LET answer == IF outcome = "ok" THEN GeneratedAnswer ELSE ErrorAnswer
         IN [state EXCEPT
                !.answer = answer,
                !.messages = Append(state.messages, Message("ai", answer, 0, 0)),
                !.calls = Append(state.calls,
                                 Call("generate", state.retrieved_chunks, outcome))]

\* The graph writes what a node returns into its channels: `messages` is
\* declared Annotated[List[BaseMessage], add], so the returned list is added
\* to the channel's list; every other key takes the returned value.
Channels(current, update) ==
    [update EXCEPT !.messages = current.messages \o update.messages]

\* Mutant of next_node: the edge out of "retrieve" leads to "generate".
next_node_skips_reason(node) ==
    CASE node = "retrieve" -> "generate"
      [] node = "reason" -> "generate"
      [] node = "generate" -> "END"

\* The edges of the graph: retrieve -> reason -> generate -> END.
next_node(node) ==
    CASE node = "retrieve" -> "reason"
      [] node = "reason" -> "generate"
      [] node = "generate" -> "END"

\* Mutant of Leave: the trace is one list that all runs append to.
LeaveSharedTrace(a, current, node, update) ==
    ag' = [b \in AgTasks |->
              IF b = a
              THEN [Channels(current, update) EXCEPT
                       !.pc = next_node(node),
                       !.stages = Append(current.stages, node)]
              ELSE [ag[b] EXCEPT
                       !.messages = Append(ag[b].messages,
                                           update.messages[Len(update.messages)])]]

\* The node, entered with the channels `current`, has returned `update`: the
\* channels are written and the graph moves along the edge.
Leave(a, current, node, update) ==
    ag' = [ag EXCEPT ![a] = [Channels(current, update) EXCEPT
                                !.pc = next_node(node),
                                !.stages = Append(current.stages, node)]]

\* run_agent(question, k, user_email): the initial state enters the graph at
\* "retrieve", whose node calls search_similar_chunks: steps 1-3 of it run at
\* once, and with nothing found it returns [] without being suspended.
AgentStart(a, question, k, user) ==
    /\ ag[a].pc = "idle"
    /\ running = "none"
    /\ agent_runs < MaxAgentRuns
    /\ dimension = embed_single(question).dim
    /\ \E out \in SearchOutcomes(index, embed_single(question).val, k) :
          LET keep == Positions(out.indices, Nat)
              valid_indices == [j \in 1..Len(keep) |-> out.indices[keep[j]]]
              valid_distances == [j \in 1..Len(keep) |-> out.distances[keep[j]]]
              initial_state == [AgIdle EXCEPT !.question = question, !.k = k,
                                              !.user_email = user]
          IN IF valid_indices = <<>>
             THEN Leave(a, initial_state, "retrieve", retrieve_node(initial_state, <<>>))
             ELSE ag' = [ag EXCEPT ![a] = [initial_state EXCEPT
                                              !.pc = "resolve",
                                              !.valid_indices = valid_indices,
                                              !.valid_distances = valid_distances]]
    /\ agent_runs' = agent_runs + 1
    /\ UNCHANGED <<store, mongo, running, ing, del, ret, counts, history, chk, qry, lst>>

\* Steps 4-6 of search_similar_chunks, then the rest of retrieve_node.
AgentResolve(a) ==
    /\ ag[a].pc = "resolve"
    /\ \E chunk_map \in ChunkMaps(MatchingChunks(ag[a].valid_indices, ag[a].user_email)) :
          Leave(a, ag[a], "retrieve",
                retrieve_node(ag[a], BuildResults(ag[a].valid_indices,
                                                  ag[a].valid_distances, chunk_map)))
    /\ UNCHANGED <<store, mongo, running, ing, del, ret, counts, history, chk, agent_runs, qry, lst>>

\* The metadata lookup raises, or the request is abandoned while suspended in
\* it: the exception leaves retrieve_node, the graph and run_agent.
AgentRetrieveFail(a) ==
    /\ ag[a].pc = "resolve"
    /\ ag' = [ag EXCEPT ![a].pc = "failed"]
    /\ UNCHANGED <<store, mongo, running, ing, del, ret, counts, history, chk, agent_runs, qry, lst>>

\* The caller abandons the request while a node is suspended in
\* llm_service.generate: the cancellation is not an Exception, so neither
\* node's handler catches it.
AgentAbandon(a) ==
    /\ ag[a].pc \in {"reason", "generate"}
    /\ ag[a].retrieved_chunks # <<>>
    /\ ag' = [ag EXCEPT ![a].pc = "failed"]
    /\ UNCHANGED <<store, mongo, running, ing, del, ret, counts, history, chk, agent_runs, qry, lst>>

\* Node "reason".
AgentReason(a, outcome) ==
    /\ ag[a].pc = "reason"
    /\ Leave(a, ag[a], "reason", reason_node(ag[a], outcome))
    /\ UNCHANGED <<store, mongo, running, ing, del, ret, counts, history, chk, agent_runs, qry, lst>>

\* Node "generate".
AgentAnswer(a, outcome) ==
    /\ ag[a].pc = "generate"
    /\ Leave(a, ag[a], "generate", answer_node(ag[a], outcome))
    /\ UNCHANGED <<store, mongo, running, ing, del, ret, counts, history, chk, agent_runs, qry, lst>>

\* The graph has reached END: run_agent returns the dictionary built from
\* the final state.
AgentReturn(a) ==
    /\ ag[a].pc = "END"
    /\ ag' = [ag EXCEPT ![a].pc = "done",
                        ![a].result = [returned |-> TRUE,
                                       question |-> ag[a].question,
                                       answer |-> ag[a].answer,
                                       reasoning |-> ag[a].reasoning,
                                       sources |-> ag[a].retrieved_chunks,
                                       messages |-> ag[a].messages]]
    /\ UNCHANGED <<store, mongo, running, ing, del, ret, counts, history, chk, agent_runs, qry, lst>>

\* ------------------------------------------------------------- direct query
QUERY_RELEVANCE_THRESHOLD == 12

NoRelevantAnswer == "I couldn't find relevant information about the question"

\* build_citation(chunk, rank): the chunk's fields without its slot, with
\* the rank and the citation's parts.  The relevance score is a float
\* computed from the distance alone and is not carried.
build_citation(chunk, rank) ==
    [text |-> chunk.text,
     document_id |-> chunk.document_id,
     chunk_index |-> chunk.chunk_index,
     start_char |-> chunk.start_char,
     end_char |-> chunk.end_char,
     distance |-> chunk.distance,
     citation |-> <<rank, chunk.chunk_index, chunk.start_char, chunk.end_char>>]

QueryResponse(answer, sources) == [status |-> 200, answer |-> answer, sources |-> sources]

\* HTTPException(status_code=...): no QueryResponse is built.
HTTPException(status_code) == [status |-> status_code, answer |-> "", sources |-> <<>>]

\* query_documents after search_similar_chunks has returned `found`: the
\* two early returns, or the chunks that go on to the provider.
after_retrieval(q, found) ==
    LET relevant == SelectSeq(found, LAMBDA c : c.distance < QUERY_RELEVANCE_THRESHOLD)
    IN IF found = <<>>
       THEN [q EXCEPT !.pc = "done", !.retrieved = found,
                      !.response = QueryResponse(NoInformationAnswer, <<>>)]
       ELSE IF relevant = <<>>
       THEN [q EXCEPT !.pc = "done", !.retrieved = found,
                      !.response = QueryResponse(NoRelevantAnswer, <<>>)]
       ELSE [q EXCEPT !.pc = "generate", !.retrieved = found]

\* Mutant of after_generate: a failed generate is answered with the error
\* text, as the agent's answer node does.
after_generate_swallows(q, outcome) ==
    LET relevant == SelectSeq(q.retrieved, LAMBDA c : c.distance < QUERY_RELEVANCE_THRESHOLD)
    IN [q EXCEPT
           !.pc = "done",
           !.calls = Append(q.calls, Call("query", relevant, outcome)),
           !.response = QueryResponse(IF outcome = "ok" THEN GeneratedAnswer ELSE ErrorAnswer,
                                      [i \in 1..Len(relevant) |-> build_citation(relevant[i], i)])]

\* Steps 2-4 of query_documents: generate is called with the texts of the
\* relevant chunks; its failure is raised as HTTP 503.
after_generate(q, outcome) ==
    LET relevant == SelectSeq(q.retrieved, LAMBDA c : c.distance < QUERY_RELEVANCE_THRESHOLD)
    IN IF outcome = "ok"
       THEN [q EXCEPT
                !.pc = "done",
                !.calls = Append(q.calls, Call("query", relevant, outcome)),
                !.response = QueryResponse(GeneratedAnswer,
                                 [i \in 1..Len(relevant) |-> build_citation(relevant[i], i)])]
       ELSE [q EXCEPT
                !.pc = "failed",
                !.calls = Append(q.calls, Call("query", relevant, outcome)),
                !.response = HTTPException(503)]

\* query_documents(request, current_user) up to the metadata lookup of
\* search_similar_chunks; an empty search result returns at once.
QueryStart(question, k, user) ==
    /\ qry.pc = "idle"
    /\ running = "none"
    /\ dimension = embed_single(question).dim
    /\ \E out \in SearchOutcomes(index, embed_single(question).val, k) :
          LET keep == Positions(out.indices, Nat)
              valid_indices == [j \in 1..Len(keep) |-> out.indices[keep[j]]]
              valid_distances == [j \in 1..Len(keep) |-> out.distances[keep[j]]]
              call == [QryIdle EXCEPT !.question = question, !.k = k, !.user_email = user]
          IN IF valid_indices = <<>>
             THEN qry' = after_retrieval(call, <<>>)
             ELSE qry' = [call EXCEPT !.pc = "resolve",
                                      !.valid_indices = valid_indices,
                                      !.valid_distances = valid_distances]
    /\ UNCHANGED <<store, mongo, running, ing, del, ret, counts, history, chk, ag, agent_runs, lst>>

\* The metadata lookup returns and the route goes on to its relevance test.
QueryResolve ==
    /\ qry.pc = "resolve"
    /\ \E chunk_map \in ChunkMaps(MatchingChunks(qry.valid_indices, qry.user_email)) :
          qry' = after_retrieval(qry, BuildResults(qry.valid_indices,
                                                   qry.valid_distances, chunk_map))
    /\ UNCHANGED <<store, mongo, running, ing, del, ret, counts, history, chk, ag, agent_runs, lst>>

\* The metadata lookup raises: the route does not catch it and the request
\* ends with the server's error response.
QueryRetrieveFail ==
    /\ qry.pc = "resolve"
    /\ qry' = [qry EXCEPT !.pc = "failed", !.response = HTTPException(500)]
    /\ UNCHANGED <<store, mongo, running, ing, del, ret, counts, history, chk, ag, agent_runs, lst>>

QueryGenerate(outcome) ==
    /\ qry.pc = "generate"
    /\ qry' = after_generate(qry, outcome)
    /\ UNCHANGED <<store, mongo, running, ing, del, ret, counts, history, chk, ag, agent_runs, lst>>

\* The caller abandons the request while it is suspended.
QueryAbandon ==
    /\ qry.pc \in {"resolve", "generate"}
    /\ qry' = [qry EXCEPT !.pc = "abandoned"]
    /\ UNCHANGED <<store, mongo, running, ing, del, ret, counts, history, chk, ag, agent_runs, lst>>

\* ----------------------------------------------------------- list_documents
\* The response's "documents": the caller's Document records, newest first
\* (created_at is taken as the record is built, right before the insert that
\* issues the id, so the ids follow it), each as its id and chunk_count.
ListedDocuments(user) ==
    LET mine == {d \in documents : d.user_email = user}
    IN [n \in 1..Cardinality(mine) |->
           LET d == CHOOSE d \in mine : Cardinality({e \in mine : e._id > d._id}) = n - 1
           IN [id |-> d._id, chunk_count |-> d.chunk_count]]

\* list_documents: one find on the documents collection, answered by the
\* database at whatever moment the request reaches it; the chunks collection
\* is not read.
ListDocuments(user) ==
    /\ lst.calls < MaxLists
    /\ lst' = [calls |-> lst.calls + 1, user_email |-> user,
               documents |-> ListedDocuments(user),
               total |-> Len(ListedDocuments(user))]
    /\ UNCHANGED <<store, mongo, running, ing, del, ret, counts, history, chk, ag, agent_runs, qry>>

\* ------------------------------------------------------------ specification
Ingest(T) ==
    \E t \in T :
        \/ \E u \in Uploads, p \in ChunkParams : IngestChunk(t, u[1], u[2], p[1], p[2])
        \/ IngestReserve(t)
        \/ IngestEmbed(t)
        \/ IngestEmbedFail(t)
        \/ IngestAdd(t)
        \/ IngestSave(t)
        \/ \E damaged \in BOOLEAN : IngestSaveFail(t, damaged)
        \/ IngestInsertDoc(t)
        \/ IngestInsertChunks(t)
        \/ \E written \in 0..(Len(ing[t].chunks) - 1) : IngestInsertChunksFail(t, written)
        \/ IngestAbandon(t)

Delete ==
    \/ \E id \in DeleteIds, user \in Owners : DeleteStart(id, user)
    \/ DeleteFind
    \/ DeleteChunks
    \/ DeleteDoc
    \/ DeleteAbandon

Retrieve ==
    \/ \E query \in Queries, k \in 1..MaxK, user \in RetrieveUsers :
          RetrieveSearch(query, k, user)
    \/ RetrieveResolve

\* Uploads and deletions, two uploads at a time.
NextIngest == Ingest(IngTasks) \/ Delete

\* Uploads one at a time, deletions and searches.
NextQuery == Ingest({"i1"}) \/ Delete \/ Retrieve

\* Uploads and deletions with process restarts.
Next == Ingest(IngTasks) \/ Delete \/ \E lost \in BOOLEAN : Restart(lost)

Spec == Init /\ [][Next]_vars

SpecIngest == Init /\ [][NextIngest]_vars

SpecQuery == Init /\ [][NextQuery]_vars

\* The steps of a run after its start.
AgentSteps(a) ==
    \/ AgentResolve(a)
    \/ AgentRetrieveFail(a)
    \/ AgentAbandon(a)
    \/ \E outcome \in LLMOutcomes : AgentReason(a, outcome)
    \/ \E outcome \in LLMOutcomes : AgentAnswer(a, outcome)
    \/ AgentReturn(a)

Query ==
    \/ \E question \in AgentQuestions, k \in 1..MaxK, user \in Owners :
          QueryStart(question, k, user)
    \/ QueryResolve
    \/ QueryRetrieveFail
    \/ \E outcome \in LLMOutcomes : QueryGenerate(outcome)
    \/ QueryAbandon

\* Uploads one at a time and direct queries.
NextDirect == Ingest({"i1"}) \/ Query

SpecDirect == Init /\ [][NextDirect]_vars

Agent(T) ==
    \E a \in T :
        \/ \E question \in AgentQuestions, k \in 1..MaxK, user \in RetrieveUsers :
              AgentStart(a, question, k, user)
        \/ AgentSteps(a)

\* Two runs side by side, each asking for MaxK chunks of an owner.
AgentPair ==
    \E a \in AgTasks :
        \/ \E question \in AgentQuestions, user \in Owners :
              AgentStart(a, question, MaxK, user)
        \/ AgentSteps(a)

\* Uploads one at a time and agent runs.
NextAgent == Ingest({"i1"}) \/ Agent({"a1"})

SpecAgent == Init /\ [][NextAgent]_vars

\* The steps of uploads that meet no failure.
Upload(t) ==
    \/ \E u \in Uploads, p \in ChunkParams : IngestChunk(t, u[1], u[2], p[1], p[2])
    \/ IngestReserve(t)
    \/ IngestEmbed(t)
    \/ IngestAdd(t)
    \/ IngestSave(t)
    \/ IngestInsertDoc(t)
    \/ IngestInsertChunks(t)

\* Uploads one at a time and two agent runs side by side.
NextAgents == Upload("i1") \/ AgentPair

SpecAgents == Init /\ [][NextAgents]_vars

\* Uploads one at a time, and starts of the process on a snapshot of
\* another width.
NextForeign == Ingest({"i1"}) \/ \E file \in ForeignSnapshots : RestartOn(file)

SpecForeign == Init /\ [][NextForeign]_vars

\* No retrieve, direct query or agent request has been made yet.
NoReader == ret.pc = "idle" /\ qry.pc = "idle" /\ ag["a1"].pc = "idle"

\* One request that reads the index: a retrieve, a direct query or an
\* agent run, asking for MaxK chunks.
Reader ==
    \/ NoReader /\ \E query \in Queries, user \in Owners : RetrieveSearch(query, MaxK, user)
    \/ RetrieveResolve
    \/ NoReader /\ \E query \in Queries, user \in Owners : QueryStart(query, MaxK, user)
    \/ QueryResolve
    \/ QueryRetrieveFail
    \/ \E outcome \in LLMOutcomes : QueryGenerate(outcome)
    \/ QueryAbandon
    \/ NoReader /\ \E query \in Queries, user \in Owners : AgentStart("a1", query, MaxK, user)
    \/ AgentSteps("a1")

\* Every operation of the running system: uploads one at a time, deletions
\* and one reading request.
NextSystem == Ingest({"i1"}) \/ Delete \/ Reader

SpecSystem == Init /\ [][NextSystem]_vars

\* One request that observes the stored documents: a list-documents or a
\* retrieve asking for MaxK chunks.
Observer ==
    \/ ret.pc = "idle" /\ \E user \in Owners : ListDocuments(user)
    \/ lst.calls = 0 /\ ret.pc = "idle" /\
          \E query \in Queries, user \in Owners : RetrieveSearch(query, MaxK, user)
    \/ RetrieveResolve

\* Uploads one at a time and deletions, with one observing request arriving
\* at any moment in between.
NextObserve == Ingest({"i1"}) \/ Delete \/ Observer

SpecObserve == Init /\ [][NextObserve]_vars

\* Calls of chunk_text on the enumerated inputs.
ChunkCalls == chk.pc = "idle" /\ \E c \in ChunkInputs : ChunkCall(c[1], c[2], c[3])

NextChunk == ChunkCalls \/ ChunkStep \/ ChunkReturn

SpecChunk == Init /\ [][NextChunk]_vars

\* The loop condition holds: ChunkStep can be taken, and only ChunkStep.
InLoop == chk.pc = "loop" /\ chk.start < Len(chk.text)

\* The interpreter keeps executing a call that has entered the loop: the
\* call returns once the loop condition fails, and while it holds iterations
\* keep being executed.  The last conjunct is WF_vars(ChunkStep) written out:
\* ChunkStep is enabled exactly where InLoop holds, and the steps that change
\* chk there are the ChunkStep steps.
FairChunk ==
    /\ SpecChunk
    /\ WF_vars(ChunkReturn)
    /\ ([]<>(~InLoop) \/ []<><<InLoop>>_chk)

\* =================================================================== claims
\* The ingestions that have appended to the index, by their place in addLog.
Adds == 1..Len(addLog)

\* An ingestion that has read its start_index and has not failed.
HasRead(t) == ing[t].start_index # -1 /\ ing[t].pc \notin {"idle", "failed"}

\* C1: under any interleaving of concurrent ingest_document calls no two
\* ingestions read the same start_index, and the n vectors of each ingestion
\* are in exactly the slots [start_index, start_index + n) it read.
C1_ConcurrentIngestionsReadDistinctSlots ==
    /\ \A t, u \in IngTasks : t # u /\ HasRead(t) /\ HasRead(u)
                                 => ing[t].start_index # ing[u].start_index
    /\ \A t \in IngTasks : ing[t].pc \in {"embed", "add"}
                              => \A i \in Adds : addLog[i].start # ing[t].start_index
    /\ \A i, j \in Adds : i # j => addLog[i].start # addLog[j].start
    /\ \A i \in Adds :
          /\ addLog[i].at = addLog[i].start
          /\ addLog[i].start + Len(addLog[i].vals) <= Len(index)
          /\ \A n \in 1..Len(addLog[i].vals) :
                index[addLog[i].start + n] = addLog[i].vals[n]

\* Two ingestions in flight at once, both past their append.
C1_Witness ==
    /\ Len(addLog) = 2
    /\ ing["i1"].pc = "insert_chunks"
    /\ ing["i2"].pc = "insert_doc"

\* C2: every ChunkMetadata record with slot s describes the chunk whose
\* embedding is the vector at index position s: the i-th chunk of an ingestion
\* carries slot start_index + i, the position its vector was appended at.
C2_SlotChunkAlignment ==
    \A c \in chunks :
        /\ c.faiss_index < Len(index)
        /\ index[c.faiss_index + 1] = Embed(c.text)
        /\ \E i \in Adds :
              /\ c.faiss_index = addLog[i].at + c.chunk_index
              /\ c.chunk_index < Len(addLog[i].vals)
              /\ addLog[i].vals[c.chunk_index + 1] = Embed(c.text)

\* Records of a second document, in slots past the first one's, after a
\* deletion has completed.
C2_Witness ==
    /\ deleted # {}
    /\ \E c \in chunks : c.faiss_index >= 3 /\ c.chunk_index >= 1

\* C3: slots are never reused: no two ChunkMetadata records carry the same
\* slot, and a slot once assigned to a document is never assigned to another.
C3_SlotsNeverReused ==
    /\ \A c, e \in chunks : c # e => c.faiss_index # e.faiss_index
    /\ \A a, b \in assigned : a[1] = b[1] => a[2] = b[2]

\* C4: once the deletion of document D has completed, no retrieve that starts
\* later returns a chunk of D.
C4_DeletedNeverResurface ==
    ret.pc = "done" =>
        \A i \in 1..Len(ret.results) : ret.results[i].document_id \notin ret.deleted_before

\* C5: every result of a retrieve for owner A is a chunk of a document A owns.
C5_OwnershipScoping ==
    (ret.pc = "done" /\ ret.user_email # "none") =>
        \A i \in 1..Len(ret.results) : issued[ret.results[i].document_id] = ret.user_email

\* A retrieve for alice whose strictly nearest slot belongs to a document of
\* bob, and which returns a chunk of alice.
C5_Witness ==
    /\ ret.pc = "done" /\ ret.user_email = "alice"
    /\ Len(ret.results) >= 1
    /\ Len(ret.raw.indices) >= 2
    /\ ret.raw.indices[2] # -1
    /\ ret.raw.distances[1] < ret.raw.distances[2]
    /\ \E a \in assigned : a[1] = ret.raw.indices[1] /\ issued[a[2]] = "bob"

\* C6: the results are a subsequence of the (slot, distance) sequence the index
\* returned, each with that slot's distance, so in ascending order of distance.
C6_ResultsInIndexOrder ==
    ret.pc = "done" =>
        LET res == ret.results
            raw == ret.raw
            At(j, i) == /\ raw.indices[i] = res[j].faiss_index
                        /\ raw.distances[i] = res[j].distance
        IN /\ \A j \in 1..Len(res) : \E i \in 1..Len(raw.indices) : At(j, i)
           /\ \A j, l \in 1..Len(res) :
                 j < l => /\ \E i, m \in 1..Len(raw.indices) : i < m /\ At(j, i) /\ At(l, m)
                          /\ res[j].distance <= res[l].distance

\* Two results whose order by distance is the reverse of their order by slot.
C6_Witness ==
    /\ ret.pc = "done"
    /\ Len(ret.results) >= 2
    /\ ret.results[1].faiss_index > ret.results[2].faiss_index
    /\ ret.results[1].distance < ret.results[2].distance

\* The slots of sequence seq that are not marked absent.
Present(seq) == {seq[i] : i \in 1..Len(seq)} \ {-1}

\* C7: slots without a ChunkMetadata record and entries marked -1 are passed
\* over: the retrieve always completes, with exactly one result for every
\* returned slot that resolves.
C7_OrphanedSlotsTolerated ==
    /\ [](ret.pc = "resolve" => ENABLED RetrieveResolve)
    /\ [][(ret.pc # "done" /\ ret'.pc = "done") =>
             LET live == {s \in Present(ret'.raw.indices) :
                             \E c \in chunks :
                                 /\ c.faiss_index = s
                                 /\ ret'.user_email # "none" => c.user_email = ret'.user_email}
             IN /\ {ret'.results[j].faiss_index : j \in 1..Len(ret'.results)} = live
                /\ Len(ret'.results) = Cardinality(live)]_vars

\* A retrieve whose index answer holds an entry marked -1 and, before a slot
\* that resolves, a slot that never had a record.
C7_Witness ==
    /\ ret.pc = "done"
    /\ \E i \in 1..Len(ret.raw.indices) : ret.raw.indices[i] = -1
    /\ Len(ret.results) >= 1
    /\ ret.raw.indices[1] # ret.results[1].faiss_index
    /\ \A a \in assigned : a[1] # ret.raw.indices[1]

C8_Order == <<"chunk", "reserve", "embed", "add", "save", "insert_doc", "insert_chunks">>

IsPrefix(a, b) == Len(a) <= Len(b) /\ \A i \in 1..Len(a) : a[i] = b[i]

\* The vectors of ingestion t are in the index at the slots it read.
Appended(t) ==
    /\ ing[t].start_index + Len(ing[t].chunks) <= Len(index)
    /\ \A n \in 1..Len(ing[t].chunks) :
          index[ing[t].start_index + n] = Embed(ing[t].chunks[n].text)

\* C8: the steps of one ingestion happen in the order chunk, read start_index,
\* embed, append, persist, write Document, write ChunkMetadata; a Document or
\* ChunkMetadata record is written only after the ingestion's vectors have
\* been appended and the index persisted.
C8_StepsInOrder ==
    /\ [](\A t \in IngTasks : IsPrefix(ing[t].steps, C8_Order))
    /\ [][/\ (documents' # documents /\ documents \subseteq documents') =>
                \E t \in IngTasks : /\ ing'[t] # ing[t]
                                    /\ ing[t].steps = SubSeq(C8_Order, 1, 5)
                                    /\ Appended(t)
          /\ (chunks' # chunks /\ chunks \subseteq chunks') =>
                \E t \in IngTasks : /\ ing'[t] # ing[t]
                                    /\ ing[t].steps = SubSeq(C8_Order, 1, 6)
                                    /\ Appended(t)]_vars

\* An ingestion that has run to its end.
C8_Witness == \E t \in IngTasks : ing[t].pc = "done" /\ ing[t].steps = C8_Order

\* The slot a new request runs in.
Slot(t) == Free(t) /\ \A other \in IngTasks : Free(other) => ~Before(other, t)

\* C9: ingest of a text that is blank after trimming fails with the
\* empty-document error and leaves the index, its snapshot and the metadata
\* store unchanged.
C9_EmptyDocumentFails ==
    [][\A t \in IngTasks :
          (ingests' = ingests + 1 /\ Slot(t) /\ Strip(ing'[t].content) = <<>>) =>
              /\ ing'[t].pc = "failed"
              /\ ing'[t].error = "Document produced no chunks"
              /\ UNCHANGED <<index, dimension, snapshot, documents, chunks>>]_vars

\* A blank upload has failed where the index, the snapshot and the metadata
\* store hold an earlier document.
C9_Witness ==
    /\ \E t \in IngTasks : /\ ing[t].pc = "failed"
                           /\ ing[t].error = "Document produced no chunks"
                           /\ ing[t].content = Blank
    /\ index # <<>> /\ snapshot.state = "ok" /\ documents # {} /\ chunks # {}

RECURSIVE TotalBefore(_)
\* The index's total count before the i-th append, counted from the empty index.
TotalBefore(i) == IF i = 1 THEN 0 ELSE TotalBefore(i - 1) + Len(addLog[i - 1].vals)

\* C10: from an empty index, every ingestion's range starts at the index's
\* total count before it and is as long as its chunk count: a 3-chunk document
\* and then a 2-chunk document get [0,3) and [3,5).
C10_ContiguousRanges ==
    /\ \A i \in Adds : addLog[i].start = TotalBefore(i)
    /\ \A d \in documents :
          \E i \in Adds : /\ d.faiss_start_index = addLog[i].start
                          /\ d.chunk_count = Len(addLog[i].vals)
                          /\ d.faiss_end_index = d.faiss_start_index + d.chunk_count
    /\ (Len(addLog) = 2 /\ Len(addLog[1].vals) = 3 /\ Len(addLog[2].vals) = 2) =>
          \A d \in documents :
              \/ d.faiss_start_index = 0 /\ d.faiss_end_index = 3
              \/ d.faiss_start_index = 3 /\ d.faiss_end_index = 5

\* D1 with 3 chunks and then D2 with 2 chunks, both recorded.
C10_Witness ==
    /\ \E d \in documents : d._id = 1 /\ d.faiss_start_index = 0 /\ d.faiss_end_index = 3
    /\ \E d \in documents : d._id = 2 /\ d.faiss_start_index = 3 /\ d.faiss_end_index = 5

\* ------------------------------------------------------ claims on chunk_text
\* C11: a 1200-character document chunked with chunk_size 500 and overlap 50
\* yields exactly 3 chunks (chunks_processed is the number of chunks).
C11_Doc1200ThreeChunks ==
    (chk.pc = "returned" /\ chk.text \in Docs1200
        /\ chk.chunk_size = 500 /\ chk.chunk_overlap = 50)
    => Len(chk.chunks) = 3

\* C12: every call of chunk_text with 0 <= overlap < chunk_size terminates:
\* a call that has entered the while loop leaves it and returns.
C12_ChunkerTerminates == (chk.pc = "loop") ~> (chk.pc = "returned")

\* C13: every chunk has 0 <= start_char < end_char <= len(text), a non-empty
\* text, and a chunk_index equal to its 0-based position.
C13_ChunkFieldsValid ==
    \A i \in 1..Len(chk.chunks) :
        /\ 0 <= chk.chunks[i].start_char
        /\ chk.chunks[i].start_char < chk.chunks[i].end_char
        /\ chk.chunks[i].end_char <= Len(chk.text)
        /\ chk.chunks[i].text # <<>>
        /\ chk.chunks[i].chunk_index = i - 1

\* A call has returned three chunks with an overlap, after a window that
\* yielded no chunk.
C13_Witness ==
    /\ chk.pc = "returned"
    /\ Len(chk.chunks) >= 3
    /\ chk.chunk_overlap >= 1
    /\ \E i \in 1..(Len(chk.chunks) - 1) :
          chk.chunks[i].end_char < chk.chunks[i + 1].start_char

\* Position p of the text lies in the range of a returned chunk.
InSomeChunk(p) ==
    \E i \in 1..Len(chk.chunks) :
        chk.chunks[i].start_char <= p /\ p < chk.chunks[i].end_char

\* C14: for a non-blank text the ranges of the returned chunks cover every
\* position of [0, len(text)).
C14_ChunksCoverText ==
    (chk.pc = "returned" /\ Strip(chk.text) # <<>>)
    => \A p \in 0..(Len(chk.text) - 1) : InSomeChunk(p)

\* C15: of two consecutive chunks the second starts no earlier than the first
\* starts, and no earlier than `overlap` characters before the first ends.
C15_ConsecutiveChunks ==
    \A i \in 1..(Len(chk.chunks) - 1) :
        /\ chk.chunks[i + 1].start_char >= chk.chunks[i].start_char
        /\ chk.chunks[i + 1].start_char >= chk.chunks[i].end_char - chk.chunk_overlap

\* Two consecutive chunks that share `overlap` characters.
C15_Witness ==
    /\ chk.pc = "returned"
    /\ chk.chunk_overlap >= 1
    /\ \E i \in 1..(Len(chk.chunks) - 1) :
          chk.chunks[i + 1].start_char = chk.chunks[i].end_char - chk.chunk_overlap

\* Marker `m` occurs in the text within [from, to).
OccursIn(text, m, from, to) ==
    \E q \in from..(to - Len(m)) : SubSeq(text, q + 1, q + Len(m)) = m

\* Position e is immediately after an occurrence of marker m that lies within
\* [from, e).
CutAfter(text, m, from, e) ==
    /\ from <= e - Len(m)
    /\ SubSeq(text, e - Len(m) + 1, e) = m

\* The sentence, paragraph and line markers.
Markers == { <<".", " ">>, <<"!", " ">>, <<"?", " ">>, <<"\n", "\n">>, <<"\n">> }

\* C16: a window [start, start + chunk_size) that ends before the end of the
\* text and contains a boundary marker is cut immediately after a marker in
\* the window (failing a marker, after a space beyond the window's first
\* character); "A. B. C." with chunk_size 4 and overlap 0 gives "A.", "B.",
\* "C.".
C16_BoundaryPreferred ==
    /\ [][(chk.pc = "loop" /\ chk'.pc = "loop" /\ chk' # chk /\ chk.start >= 0
             /\ chk.start + chk.chunk_size < Len(chk.text)) =>
             LET raw == chk.start + chk.chunk_size
                 marked == \E m \in Markers : OccursIn(chk.text, m, chk.start, raw)
             IN /\ marked =>
                      \E m \in Markers : CutAfter(chk.text, m, chk.start, chk'.end)
                /\ (~marked /\ OccursIn(chk.text, <<" ">>, chk.start + 1, raw)) =>
                      CutAfter(chk.text, <<" ">>, chk.start + 1, chk'.end)
                /\ chk'.end <= raw
                /\ Len(chk'.chunks) > Len(chk.chunks) =>
                      chk'.chunks[Len(chk'.chunks)].end_char = chk'.end]_vars
    /\ []((chk.pc = "returned" /\ chk.text = ThreeSentences
              /\ chk.chunk_size = 4 /\ chk.chunk_overlap = 0) =>
            /\ Len(chk.chunks) = 3
            /\ chk.chunks[1].text = <<"A", ".">> /\ chk.chunks[1].end_char = 3
            /\ chk.chunks[2].text = <<"B", ".">> /\ chk.chunks[2].end_char = 6
            /\ chk.chunks[3].text = <<"C", ".">> /\ chk.chunks[3].end_char = 8)

\* "A. B. C." has been chunked with chunk_size 4, every cut before the raw
\* cutoff.
C16_Witness ==
    /\ chk.pc = "returned" /\ chk.text = ThreeSentences
    /\ chk.chunk_size = 4 /\ chk.chunk_overlap = 0
    /\ Len(chk.chunks) = 3
    /\ chk.chunks[1].end_char < 4

\* ------------------------------------------------------- claims on run_agent
StageOrder == <<"retrieve", "reason", "generate">>

Surviving(found) == SelectSeq(found, LAMBDA c : c.distance < RELEVANCE_THRESHOLD)

\* C17: a run executes retrieve, reason and generate once each and in that
\* order, then ends: the stages executed so far are always the first stages
\* of the order, every stage that completes is the next one of the order, a
\* run that reached END or returned has executed exactly the three, and at
\* "reason" and at "generate" the stage can run with a failing provider,
\* whether or not a chunk survived the filter.
C17_StagesInOrder ==
    /\ [](\A a \in AgTasks :
            /\ Len(ag[a].stages) <= 3
            /\ ag[a].stages = SubSeq(StageOrder, 1, Len(ag[a].stages))
            /\ ag[a].pc = "reason" => ag[a].stages = <<"retrieve">>
            /\ ag[a].pc = "generate" => ag[a].stages = <<"retrieve", "reason">>
            /\ ag[a].pc \in {"END", "done"} => ag[a].stages = StageOrder
            /\ ag[a].result.returned => ag[a].pc = "done"
            /\ ag[a].pc = "reason" => ENABLED AgentReason(a, "fail")
            /\ ag[a].pc = "generate" => ENABLED AgentAnswer(a, "fail"))
    /\ [][\A a \in AgTasks :
             ag'[a].stages # ag[a].stages =>
                 \/ /\ ag[a].pc \in {"idle", "done", "failed"}
                    /\ ag'[a].stages \in {<<>>, <<"retrieve">>}
                 \/ /\ Len(ag[a].stages) < 3
                    /\ ag'[a].stages = Append(ag[a].stages,
                                              StageOrder[Len(ag[a].stages) + 1])]_vars

\* A run has returned after the provider failed in "reason" and in "generate".
C17_Witness ==
    \E a \in AgTasks :
        /\ ag[a].result.returned
        /\ ag[a].stages = StageOrder
        /\ Len(ag[a].calls) = 2
        /\ \A i \in 1..2 : ag[a].calls[i].outcome = "fail"

\* C18: the sources of a returned run are the chunks the retrieval returned
\* whose distance is strictly below the threshold, in the retrieval's order,
\* and no chunk at the threshold or beyond is passed to the provider.
C18_SourcesBelowThreshold ==
    \A a \in AgTasks :
        /\ ag[a].result.returned =>
              ag[a].result.sources = Surviving(ag[a].retrieved)
        /\ \A i \in 1..Len(ag[a].calls) :
              \A j \in 1..Len(ag[a].calls[i].passed) :
                  /\ ag[a].calls[i].passed[j].distance < RELEVANCE_THRESHOLD
                  /\ \E n \in 1..Len(ag[a].retrieved) :
                        ag[a].retrieved[n] = ag[a].calls[i].passed[j]

\* A run has returned sources although the retrieval also returned a chunk
\* at exactly the threshold, and the provider was called.
C18_Witness ==
    \E a \in AgTasks :
        /\ ag[a].result.returned
        /\ ag[a].result.sources # <<>>
        /\ ag[a].calls # <<>>
        /\ \E n \in 1..Len(ag[a].retrieved) :
              ag[a].retrieved[n].distance = RELEVANCE_THRESHOLD

\* C19: when no retrieved chunk is below the threshold, the returned trace
\* has exactly two entries, the retrieve notice and the no-context answer.
C19_TwoMessagesWithoutContext ==
    \A a \in AgTasks :
        (ag[a].result.returned /\ Surviving(ag[a].retrieved) = <<>>) =>
            /\ Len(ag[a].result.messages) = 2
            /\ ag[a].result.messages[1].role = "human"
            /\ ag[a].result.messages[2].content = NoInformationAnswer

\* C20: when no retrieved chunk is below the threshold, the returned answer
\* is the fixed no-information string, the sources are empty, and the
\* provider is called neither in "reason" nor in "generate".
C20_NoContextNoProvider ==
    \A a \in AgTasks :
        /\ (ag[a].stages # <<>> /\ Surviving(ag[a].retrieved) = <<>>) =>
              ag[a].calls = <<>>
        /\ (ag[a].result.returned /\ Surviving(ag[a].retrieved) = <<>>) =>
              /\ ag[a].result.answer = NoInformationAnswer
              /\ ag[a].result.sources = <<>>

\* A run has returned although every chunk the retrieval returned was at the
\* threshold or beyond.
C20_Witness ==
    \E a \in AgTasks :
        /\ ag[a].result.returned
        /\ ag[a].retrieved # <<>>
        /\ Surviving(ag[a].retrieved) = <<>>

\* The step is one in which run a called the provider in `stage` and the
\* call failed.
FailedCall(a, stage) ==
    /\ Len(ag'[a].calls) = Len(ag[a].calls) + 1
    /\ ag'[a].calls[Len(ag'[a].calls)].stage = stage
    /\ ag'[a].calls[Len(ag'[a].calls)].outcome = "fail"

Last(seq) == seq[Len(seq)]

\* C21: when a chunk survived the filter and the provider fails in "reason",
\* reasoning becomes the fixed fallback statement, a trace message carrying
\* it is appended, and the run goes on to "generate".
C21_ReasonFallsBack ==
    [][\A a \in AgTasks :
          (ag[a].retrieved_chunks # <<>> /\ FailedCall(a, "reason")) =>
              /\ ag'[a].reasoning = FallbackReasoning
              /\ Len(ag'[a].messages) > Len(ag[a].messages)
              /\ Last(ag'[a].messages) = Message("ai", "Reasoning: " \o FallbackReasoning, 0, 0)
              /\ ag'[a].pc = "generate"
              /\ ag'[a].stages = Append(ag[a].stages, "reason")]_vars

\* The provider failed in "reason" and the run has returned with the
\* fallback reasoning and a generated answer.
C21_Witness ==
    \E a \in AgTasks :
        /\ ag[a].result.returned
        /\ ag[a].result.reasoning = FallbackReasoning
        /\ ag[a].result.answer = GeneratedAnswer
        /\ ag[a].calls[1].outcome = "fail"

\* C22: when the provider fails in "generate" the run still reaches END and
\* returns: the answer is the error string, the question, the reasoning and
\* the surviving chunks are those of the state before the call, the trace
\* gains the error string as its last message, and what run_agent returns
\* is built from these fields.
C22_AnswerFailureReturned ==
    /\ [][\A a \in AgTasks :
             FailedCall(a, "generate") =>
                 /\ ag'[a].pc = "END"
                 /\ ag'[a].answer = ErrorAnswer
                 /\ ag'[a].question = ag[a].question
                 /\ ag'[a].reasoning = ag[a].reasoning
                 /\ ag'[a].retrieved_chunks = ag[a].retrieved_chunks
                 /\ Len(ag'[a].messages) > Len(ag[a].messages)
                 /\ Last(ag'[a].messages) = Message("ai", ErrorAnswer, 0, 0)]_vars
    /\ [](\A a \in AgTasks :
            /\ ag[a].pc = "END" => ENABLED AgentReturn(a)
            /\ ag[a].result.returned =>
                  /\ ag[a].result.question = ag[a].question
                  /\ ag[a].result.answer = ag[a].answer
                  /\ ag[a].result.reasoning = ag[a].reasoning
                  /\ ag[a].result.reasoning # ""
                  /\ ag[a].result.sources = ag[a].retrieved_chunks
                  /\ ag[a].result.messages = ag[a].messages)

\* The provider answered in "reason" and failed in "generate", and the run
\* has returned the error string with its sources.
C22_Witness ==
    \E a \in AgTasks :
        /\ ag[a].result.returned
        /\ ag[a].result.answer = ErrorAnswer
        /\ ag[a].result.reasoning = GeneratedReasoning
        /\ ag[a].result.sources # <<>>
        /\ Len(ag[a].calls) = 2
        /\ ag[a].calls[2].outcome = "fail"

\* The messages a run may hold, given what it asked and what its own calls
\* returned.
OwnMessages(a) ==
    { Message("human", "Retrieved relevant chunks",
              Len(Surviving(ag[a].retrieved)), Len(ag[a].retrieved)),
      Message("human", "No relevant chunks found", 0, Len(ag[a].retrieved)),
      Message("ai", ag[a].result.reasoning, 0, 0),
      Message("ai", "Reasoning: " \o ag[a].result.reasoning, 0, 0),
      Message("ai", ag[a].result.answer, 0, 0) }

\* C23: concurrent runs are isolated.  A step changes the state of at most
\* one run; what the retrieval returned to a run is measured against its own
\* question and belongs to its own owner; and what a run returns is
\* determined by its own question, the retrieval's response to it and the
\* outcomes of its own provider calls.
C23_RunsIsolated ==
    /\ [][\A a, b \in AgTasks : (a # b /\ ag'[a] # ag[a]) => ag'[b] = ag[b]]_vars
    /\ [](\A a \in AgTasks :
            /\ \A n \in 1..Len(ag[a].retrieved) :
                  LET c == ag[a].retrieved[n]
                  IN /\ c.faiss_index < Len(index)
                     /\ c.distance = Distance(index[c.faiss_index + 1], Embed(ag[a].question))
                     /\ \E ch \in chunks : /\ ch.faiss_index = c.faiss_index
                                           /\ ch.user_email = ag[a].user_email
                                           /\ ch.text = c.text
            /\ Len(ag[a].retrieved) <= ag[a].k
            /\ ag[a].result.returned =>
                  /\ ag[a].result.question = ag[a].question
                  /\ ag[a].result.sources = Surviving(ag[a].retrieved)
                  /\ ag[a].result.reasoning =
                        IF Surviving(ag[a].retrieved) = <<>> THEN NoDocumentsReasoning
                        ELSE IF ag[a].calls[1].outcome = "ok" THEN GeneratedReasoning
                        ELSE FallbackReasoning
                  /\ ag[a].result.answer =
                        IF Surviving(ag[a].retrieved) = <<>> THEN NoInformationAnswer
                        ELSE IF ag[a].calls[2].outcome = "ok" THEN GeneratedAnswer
                        ELSE ErrorAnswer
                  /\ \A i \in 1..Len(ag[a].result.messages) :
                        ag[a].result.messages[i] \in OwnMessages(a))

\* Two runs with different questions and owners are in flight together:
\* one has finished the graph with sources and an answer, the other, whose
\* retrieved chunks were all filtered out, is about to enter "generate".
C23_Witness ==
    /\ ag["a1"].pc = "END" /\ ag["a2"].pc = "generate"
    /\ ag["a1"].question # ag["a2"].question
    /\ ag["a1"].user_email # ag["a2"].user_email
    /\ ag["a1"].retrieved_chunks # <<>>
    /\ Len(ag["a1"].calls) = 2
    /\ ag["a2"].retrieved # <<>>
    /\ ag["a2"].retrieved_chunks = <<>>
    /\ ag["a1"].messages # ag["a2"].messages

\* The chunks of a direct query's retrieval that pass its relevance test.
QuerySurviving == SelectSeq(qry.retrieved, LAMBDA c : c.distance < QUERY_RELEVANCE_THRESHOLD)

\* C24: on the direct query path a failed generate call ends the request
\* with an explicit failure and no answer; the provider is called only when
\* a retrieved chunk is below the threshold, and a request that retrieved
\* nothing, or nothing below the threshold, returns a no-information answer
\* with empty sources.
C24_DirectQueryFailure ==
    /\ [][(Len(qry'.calls) = Len(qry.calls) + 1 /\ Last(qry'.calls).outcome = "fail") =>
             /\ qry.pc = "generate"
             /\ qry'.pc = "failed"
             /\ qry'.response.status = 503
             /\ qry'.response.answer = ""
             /\ qry'.response.sources = <<>>]_vars
    /\ [](/\ qry.pc = "generate" => QuerySurviving # <<>>
          /\ qry.calls # <<>> =>
                /\ QuerySurviving # <<>>
                /\ qry.calls[1].passed = QuerySurviving
          /\ (qry.pc = "done" /\ QuerySurviving = <<>>) =>
                /\ qry.calls = <<>>
                /\ qry.response.status = 200
                /\ qry.response.sources = <<>>
                /\ qry.response.answer =
                      IF qry.retrieved = <<>> THEN NoInformationAnswer ELSE NoRelevantAnswer
          /\ (qry.pc = "done" /\ QuerySurviving # <<>>) =>
                /\ Len(qry.calls) = 1 /\ qry.calls[1].outcome = "ok"
                /\ qry.response.answer = GeneratedAnswer)

\* A direct query whose retrieval held a chunk below the threshold and one
\* at it has ended in the 503 failure.
C24_Witness ==
    /\ qry.pc = "failed"
    /\ qry.response.status = 503
    /\ QuerySurviving # <<>>
    /\ Len(QuerySurviving) < Len(qry.retrieved)
    /\ qry.calls # <<>>

\* C25: the index is append-only while the system runs.  No step makes the
\* index shorter or changes the vector at a slot it already holds, and the
\* steps of deletions, retrieves, direct queries and agent runs leave the
\* index and its dimension as they are.
C25_IndexAppendOnly ==
    [][/\ Len(index') >= Len(index)
       /\ \A i \in 1..Len(index) : index'[i] = index[i]
       /\ (del' # del \/ ret' # ret \/ qry' # qry \/ ag' # ag) =>
             (index' = index /\ dimension' = dimension)]_vars

\* Two uploads have added vectors, a deletion has removed the chunk records
\* of an indexed document, a reading request has found chunks, and the index
\* still holds every vector added.
C25_Witness ==
    /\ Len(addLog) = 2
    /\ Len(index) = Len(addLog[1].vals) + Len(addLog[2].vals)
    /\ del.pc = "done" /\ del.chunks_deleted > 0
    /\ \/ ret.pc = "done" /\ ret.results # <<>>
       \/ qry.pc = "done" /\ qry.retrieved # <<>>
       \/ ag["a1"].pc = "done" /\ ag["a1"].retrieved # <<>>

\* C26: add_vectors of a batch whose width differs from the index's
\* dimension fails with the dimension-mismatch error and leaves the index
\* as it was, and the ingestion that met the error has written and writes
\* no document or chunk record.
C26_DimensionMismatch ==
    /\ [][\A t \in IngTasks :
             /\ (/\ ing[t].pc = "add"
                 /\ ing[t].embeddings.dim # dimension
                 /\ ing'[t] # ing[t]
                 /\ ing'[t].pc # "idle") =>
                    /\ ing'[t].pc = "failed"
                    /\ ing'[t].error = "dimension mismatch"
                    /\ index' = index /\ dimension' = dimension
                    /\ documents' = documents /\ chunks' = chunks
             /\ (ing[t].error = "dimension mismatch" /\ ing'[t] = ing[t]) =>
                    (documents' = documents /\ chunks' = chunks)]_vars
    /\ [](\A t \in IngTasks :
            ing[t].error = "dimension mismatch" =>
                /\ ing[t].pc = "failed"
                /\ ing[t].steps = <<"chunk", "reserve", "embed">>
                /\ ing[t].document_id = 0
                /\ ing[t].embeddings.dim # dimension)

\* An ingestion has failed with the dimension mismatch on an index that
\* holds a vector of the other width.
C26_Witness ==
    \E t \in IngTasks :
        /\ ing[t].error = "dimension mismatch"
        /\ ing[t].embeddings.vals # <<>>
        /\ index = <<5>>
        /\ dimension = ForeignDimension

\* C27: startup completes whatever the snapshot file is.  When the file is
\* missing or cannot be read the index is empty and of the default
\* dimension; when it is readable the index holds the file's vectors, in
\* their slots, and has the file's dimension.  No coroutine survives the
\* start and the event loop is free.
C27_StartupLoad ==
    [][\A lost \in BOOLEAN :
          Restart(lost) =>
              /\ IF snapshot'.state = "ok"
                 THEN /\ index' = snapshot'.vecs
                      /\ Len(index') = Len(snapshot'.vecs)
                      /\ dimension' = snapshot'.d
                 ELSE /\ index' = <<>>
                      /\ dimension' = DEFAULT_DIMENSION
              /\ snapshot'.state \in {"ok", "missing", "corrupt"}
              /\ running' = "none"
              /\ \A t \in IngTasks : ing'[t].pc = "idle"]_vars

\* The process has started on a snapshot that cannot be read, after vectors
\* had been added: the index is empty.
C27_Witness ==
    /\ snapshot.state = "corrupt"
    /\ addLog # <<>>
    /\ index = <<>>
    /\ dimension = DEFAULT_DIMENSION
    /\ \A t \in IngTasks : ing[t].pc = "idle"

\* The position just after the last occurrence of marker m within [from, to).
AfterLast(text, m, from, to) ==
    Max({q + Len(m) : q \in {r \in from..(to - Len(m)) : SubSeq(text, r + 1, r + Len(m)) = m}})

SentenceEnds == { <<".", " ">>, <<"!", " ">>, <<"?", " ">> }

\* C28: a window that ends before the end of the text is cut by the
\* priority paragraph break, newline, sentence terminator, space: after the
\* last paragraph break if the window holds one, else after the last
\* newline, else after the last occurrence of a sentence terminator, else
\* after the last space; "a\n\na. aa" with chunk_size 7 is cut after the
\* paragraph break, at 3.
C28_BoundaryPriority ==
    /\ [][(chk.pc = "loop" /\ chk'.pc = "loop" /\ chk' # chk /\ chk.start >= 0
             /\ chk.start + chk.chunk_size < Len(chk.text)) =>
             LET raw == chk.start + chk.chunk_size
                 has(m) == OccursIn(chk.text, m, chk.start, raw)
                 after(m) == AfterLast(chk.text, m, chk.start, raw)
             IN IF has(<<"\n", "\n">>) THEN chk'.end = after(<<"\n", "\n">>)
                ELSE IF has(<<"\n">>) THEN chk'.end = after(<<"\n">>)
                ELSE IF \E m \in SentenceEnds : has(m)
                     THEN \E m \in SentenceEnds : has(m) /\ chk'.end = after(m)
                ELSE IF OccursIn(chk.text, <<" ">>, chk.start + 1, raw)
                     THEN chk'.end = AfterLast(chk.text, <<" ">>, chk.start + 1, raw)
                ELSE chk'.end = raw]_vars
    /\ []((chk.pc = "returned" /\ chk.text = ParagraphThenSentence
              /\ chk.chunk_size = 7 /\ chk.chunk_overlap = 0) =>
            chk.chunks[1].end_char = 3)

\* C29: in every iteration of the loop the next window start is strictly
\* greater than the current one and is not negative.
C29_CursorAdvances ==
    [][(chk.pc = "loop" /\ chk'.pc = "loop" /\ chk' # chk) =>
          (chk'.start > chk.start /\ chk'.start >= 0)]_vars

\* C30: the text of every chunk is the window text[start_char:end_char]
\* without its leading and trailing whitespace, and the window is at most
\* chunk_size wide.
C30_PositionalProvenance ==
    (chk.pc \in {"loop", "returned"}) =>
        \A i \in 1..Len(chk.chunks) :
            LET c == chk.chunks[i]
            IN /\ c.end_char - c.start_char <= chk.chunk_size
               /\ \E a \in c.start_char..c.end_char, b \in c.start_char..c.end_char :
                     /\ a < b
                     /\ c.text = SubSeq(chk.text, a + 1, b)
                     /\ chk.text[a + 1] \notin Whitespace
                     /\ chk.text[b] \notin Whitespace
                     /\ \A p \in (c.start_char + 1)..a : chk.text[p] \in Whitespace
                     /\ \A p \in (b + 1)..c.end_char : chk.text[p] \in Whitespace

\* A call has returned a chunk whose window is chunk_size wide and whose
\* text lost whitespace at both ends.
C30_Witness ==
    /\ chk.pc = "returned"
    /\ \E i \in 1..Len(chk.chunks) :
          LET c == chk.chunks[i]
          IN /\ c.end_char - c.start_char = chk.chunk_size
             /\ Len(c.text) = chk.chunk_size - 2
             /\ chk.text[c.start_char + 1] \in Whitespace
             /\ chk.text[c.end_char] \in Whitespace

\* C31: in a run where a chunk survived the filter the returned trace has
\* exactly three messages, one per stage and in stage order: the retrieve
\* notice with the human role, the reasoning message and the answer message
\* with the ai role.
C31_OneMessagePerStage ==
    \A a \in AgTasks :
        (ag[a].result.returned /\ ag[a].result.sources # <<>>) =>
            LET m == ag[a].result.messages
            IN /\ Len(m) = 3
               /\ m[1] = Message("human", "Retrieved relevant chunks",
                                  Len(ag[a].result.sources), Len(ag[a].retrieved))
               /\ m[2] = Message("ai", "Reasoning: " \o ag[a].result.reasoning, 0, 0)
               /\ m[3] = Message("ai", ag[a].result.answer, 0, 0)

\* No ingestion and no deletion is in progress.
AtRest == (\A t \in IngTasks : Free(t)) /\ del.pc \in {"idle", "done", "failed"}

ChunksOf(id) == {c \in chunks : c.document_id = id}

\* C32: while no ingestion and no deletion is in progress, every document
\* record has exactly chunk_count chunk records, at least one, whose slots
\* are exactly faiss_start_index .. faiss_end_index - 1, and every chunk
\* record belongs to a document record that exists.
C32_ConsistentAtRest ==
    AtRest =>
        /\ \A d \in documents :
              /\ d.chunk_count >= 1
              /\ Cardinality(ChunksOf(d._id)) = d.chunk_count
              /\ {c.faiss_index : c \in ChunksOf(d._id)} =
                    d.faiss_start_index..(d.faiss_end_index - 1)
        /\ \A c \in chunks : \E d \in documents : d._id = c.document_id

\* The running deletion has removed the chunk records of document id and has
\* not yet removed its Document record.
HalfDeleted(id) ==
    del.pc = "delete_doc" /\ del.document_id = id /\ del.chunks_deleted > 0

\* C33: no list-documents response names a document whose chunk records a
\* deletion in progress has already removed, and no retrieve looks up the
\* chunk records while a document is in that state.
C33_DeletionAtomic ==
    [][/\ \A user \in Owners :
            ListDocuments(user) =>
                \A n \in 1..Len(lst'.documents) : ~HalfDeleted(lst'.documents[n].id)
       /\ RetrieveResolve => \A d \in documents : ~HalfDeleted(d._id)]_vars

\* The number of vectors a process starting now would load from the snapshot
\* file.
PersistedCount == Len(LoadedIndex(snapshot))

\* C34: whenever the event loop is free for another request, the slot of
\* every chunk record is smaller than the number of vectors in the persisted
\* snapshot, a failed persist step included.
C34_MetadataWithinSnapshot ==
    running = "none" => \A c \in chunks : c.faiss_index < PersistedCount

====
